---- MODULE Spec2Model ----
(***************************************************************************)
(* The scrape / deduplicate / notify pipeline of the tennis-booker         *)
(* scraper: RedisDeduplicator (expiring-key dedup cache), RedisPublisher   *)
(* (outbound queue) and ScraperOrchestrator (per-venue session loop and    *)
(* store_scraping_result).  Strings are TLC strings, so key generation is  *)
(* computed on real character strings.                                     *)
(***************************************************************************)
EXTENDS Integers, Sequences, FiniteSets, TLC

VARIABLES
    client,      \* RedisDeduplicator.client: "None" or "Redis" (the attribute is set)
    metrics,     \* RedisDeduplicator.metrics: the five counters
    cache,       \* the dedup Redis database: key -> [value, ttl]
    now,         \* wall clock, in units of TickSeconds
    last,        \* record of the last operation performed (inputs and returned value)
    key_in,      \* key generation: the pair of slot dictionaries handed to generate_slot_key
    key_out,     \* key generation: the pair of keys returned
    pub_client,  \* RedisPublisher.client: "None" or "Redis"
    queue,       \* the Redis list 'court_slots' (head first: lpush adds at the head)
    slots,       \* db.slots: the documents of the slots collection, in insertion order
    scraping_logs, \* db.scraping_logs: the attempt log, in insertion order
    pc,          \* where run_scraping_session stands: "idle", "scrape", "store", "finish"
    venues,      \* scrape_all_venues: the loaded venue list
    idx,         \* scrape_all_venues: position of the loop in venues
    results,     \* scrape_all_venues: the results list
    sessions,    \* number of sessions started
    attempts,    \* this session's scrape_venue calls: venue and how each ended
    stored,      \* this session's results handed to store_scraping_result
    system_status, \* db.system_status: the "scraper_status" document, <<>> when absent
    conn,        \* connections held: mongo (mongo_client) and dedup (the deduplicator's
                 \* client), each "none", "open" or "closed"
    sched,       \* ScrapingScheduler: running, next_run_time, where start_scheduler stands
    inst         \* two orchestrator processes handling one result each, step by step

keyVars == <<key_in, key_out>>
dedupVars == <<client, metrics, cache>>
pipeVars == <<pub_client, queue, slots, scraping_logs>>
sessVars == <<pc, venues, idx, results, sessions, attempts, stored>>
extVars == <<sched, inst>>
restVars == <<system_status, sched, inst>>
vars == <<client, metrics, cache, now, last, key_in, key_out,
          pub_client, queue, slots, scraping_logs, pc, venues, idx, results, sessions,
          attempts, stored,
         system_status, conn, sched, inst>>

(***************************************************************************)
(* Bounds of the model.                                                    *)
(***************************************************************************)
MaxClock == 2        \* the clock stops advancing after this many ticks
MaxChecks == 4       \* is_duplicate_slot calls explored on one deduplicator
MaxSessions == 2     \* sessions started by one orchestrator (Spec)
MaxRuns == 2         \* sessions started by one orchestrator (SpecSession)
MaxBatch == 2        \* slots in one scrape result
MaxVisits == 3       \* sessions of the revisit specification
MaxScheduled == 3    \* sessions the scheduler starts
MaxTime == 3         \* the scheduler's clock stops advancing after this many units
MaxCalls == 2        \* entry-point calls of the orchestrator specification

(***************************************************************************)
(* Program constants.                                                      *)
(***************************************************************************)
expiry_hours == 48           \* RedisDeduplicator.__init__ default
KeyLengthLimit == 200        \* generate_slot_key: len(key_suffix) > 200
DigestLength == 32           \* length of hashlib.md5(...).hexdigest()
expiry_seconds == expiry_hours * 3600
TickSeconds == expiry_seconds \div 2     \* time that passes in one Tick

(***************************************************************************)
(* Strings.                                                                *)
(***************************************************************************)
RECURSIVE Rep(_, _)
Rep(c, n) ==
    IF n = 0 THEN ""
    ELSE LET h == Rep(c, n \div 2)
         IN  IF n % 2 = 0 THEN h \o h ELSE h \o h \o c

Alphabet == "0123456789abcdefghijklmnopqrstuvwxyz:-_"
HexDigits == "0123456789abcdef"

ord(c) == CHOOSE i \in 1..Len(Alphabet) : SubSeq(Alphabet, i, i) = c

startswith(s, p) == Len(s) >= Len(p) /\ SubSeq(s, 1, Len(p)) = p

\* ':'.join(parts)
RECURSIVE join(_, _)
join(sep, parts) ==
    IF Len(parts) = 0 THEN ""
    ELSE IF Len(parts) = 1 THEN parts[1]
    ELSE parts[1] \o sep \o join(sep, Tail(parts))

\* hashlib.md5(s.encode()).hexdigest(): a deterministic digest of the whole
\* string, rendered as DigestLength lowercase hex digits.  The mixing
\* function is a stand-in for MD5's; only its being a fixed function of the
\* characters and the shape of its output are modelled.
RECURSIVE md5_mix(_, _, _)
md5_mix(s, lo, hi) ==
    IF lo > hi THEN 7
    ELSE IF lo = hi THEN (ord(SubSeq(s, lo, lo)) * 131 + lo) % 65521
    ELSE LET mid == (lo + hi) \div 2
         IN  (md5_mix(s, lo, mid) * 31 + md5_mix(s, mid + 1, hi)) % 65521

RECURSIVE md5_render(_, _)
md5_render(h, n) ==
    IF n = 0 THEN ""
    ELSE LET d == ((h \div n) + h * n) % 16
         IN  SubSeq(HexDigits, d + 1, d + 1) \o md5_render(h, n - 1)

md5_hexdigest(s) == md5_render(md5_mix(s, 1, Len(s)), DigestLength)

(***************************************************************************)
(* RedisDeduplicator.generate_slot_key                                     *)
(***************************************************************************)
\* slot_data.get(field, '')
get(slot_data, field) ==
    IF field \in DOMAIN slot_data THEN slot_data[field] ELSE ""

\* bson.ObjectId(s) and str(ObjectId): an ObjectId is written "ObjectId(<hex>)"
ObjectId(s) == "ObjectId(" \o s \o ")"

str(v) ==
    IF startswith(v, "ObjectId(") THEN SubSeq(v, Len("ObjectId(") + 1, Len(v) - 1) ELSE v

generate_slot_key_court_name(slot_data) ==
    "dedupe:slot:" \o join(":", <<str(get(slot_data, "venue_id")), get(slot_data, "date"),
                                  get(slot_data, "start_time"), get(slot_data, "court_name")>>)

generate_slot_key_off_by_one(slot_data) ==
    LET key_suffix == join(":", <<str(get(slot_data, "venue_id")), get(slot_data, "date"),
                                  get(slot_data, "start_time"), get(slot_data, "court_id")>>)
    IN  IF Len(key_suffix) >= KeyLengthLimit
        THEN "dedupe:slot:hash:" \o md5_hexdigest(key_suffix)
        ELSE "dedupe:slot:" \o key_suffix

\* generate_slot_key with the start time left out of key_parts
generate_slot_key_without_start_time(slot_data) ==
    LET key_suffix == join(":", <<str(get(slot_data, "venue_id")), get(slot_data, "date"),
                                  get(slot_data, "court_id")>>)
    IN  IF Len(key_suffix) > KeyLengthLimit
        THEN "dedupe:slot:hash:" \o md5_hexdigest(key_suffix)
        ELSE "dedupe:slot:" \o key_suffix

generate_slot_key(slot_data) ==
    LET venue_id   == str(get(slot_data, "venue_id"))
        date       == get(slot_data, "date")
        start_time == get(slot_data, "start_time")
        court_id   == get(slot_data, "court_id")
        key_parts  == <<venue_id, date, start_time, court_id>>
        key_suffix == join(":", key_parts)
    IN  IF Len(key_suffix) > KeyLengthLimit
        THEN "dedupe:slot:hash:" \o md5_hexdigest(key_suffix)
        ELSE "dedupe:slot:" \o key_suffix

\* the identifying tuple of a slot, as generate_slot_key reads it
slot_tuple(slot_data) ==
    <<str(get(slot_data, "venue_id")), get(slot_data, "date"),
      get(slot_data, "start_time"), get(slot_data, "court_id")>>

(***************************************************************************)
(* The dedup Redis database.  An entry is [value, ttl]: the stored string  *)
(* and the remaining time to live in seconds.                              *)
(***************************************************************************)
\* client.set(key, value, ex=ex, nx=True) without the nx flag: always writes
redis_set_overwrite(db, key, value, ex) ==
    [db |-> (key :> [value |-> value, ttl |-> ex]) @@ db, was_set |-> TRUE]

\* client.set(key, value, ex=ex, nx=True): SET key value EX ex NX
redis_set_nx_ex(db, key, value, ex) ==
    IF key \in DOMAIN db
    THEN [db |-> db, was_set |-> FALSE]
    ELSE [db |-> (key :> [value |-> value, ttl |-> ex]) @@ db, was_set |-> TRUE]

\* client.delete(key)
redis_delete(db, key) ==
    [db |-> [k \in DOMAIN db \ {key} |-> db[k]],
     result |-> IF key \in DOMAIN db THEN 1 ELSE 0]

\* Redis expiry: seconds pass, keys whose time to live has run out are gone
redis_expire(db, seconds) ==
    [k \in {x \in DOMAIN db : db[x].ttl > seconds} |->
        [db[k] EXCEPT !.ttl = @ - seconds]]

(***************************************************************************)
(* RedisDeduplicator.  w is [client, metrics, cache]: the object's client  *)
(* attribute and counters, and the database it talks to.  up says whether  *)
(* the backend answers at the time of the call.                            *)
(***************************************************************************)
metrics0 ==
    [total_checks |-> 0, duplicates_found |-> 0, new_slots |-> 0,
     redis_errors |-> 0, connection_failures |-> 0]

\* connect(), were a failed attempt followed by a second one
connect_with_retry(w, up) ==
    IF up
    THEN [w |-> [w EXCEPT !.client = "Redis"], ok |-> TRUE]
    ELSE [w |-> [w EXCEPT !.client = "Redis",
                          !.metrics.connection_failures = @ + 2],
          ok |-> FALSE]

\* connect(): self.client is assigned before the ping (with and without
\* password alike), so it stays set when the ping fails.
connect(w, up) ==
    IF up
    THEN [w |-> [w EXCEPT !.client = "Redis"], ok |-> TRUE]
    ELSE [w |-> [w EXCEPT !.client = "Redis",
                          !.metrics.connection_failures = @ + 1],
          ok |-> FALSE]

is_duplicate_slot(w, slot_data, up, t) ==
    LET w1 == [w EXCEPT !.metrics.total_checks = @ + 1]
        c  == IF w1.client = "None" THEN connect(w1, up) ELSE [w |-> w1, ok |-> TRUE]
    IN  IF ~c.ok
        THEN [w |-> c.w, is_duplicate |-> FALSE, redis_key |-> ""]
        ELSE LET redis_key == generate_slot_key(slot_data)
             IN  IF ~up
                 THEN \* client.set raises: except Exception
                      [w |-> [c.w EXCEPT !.metrics.redis_errors = @ + 1],
                       is_duplicate |-> FALSE, redis_key |-> ""]
                 ELSE LET r == redis_set_nx_ex(c.w.cache, redis_key, t, expiry_seconds)
                      IN  IF r.was_set
                          THEN [w |-> [c.w EXCEPT !.cache = r.db,
                                                  !.metrics.new_slots = @ + 1],
                                is_duplicate |-> FALSE, redis_key |-> redis_key]
                          ELSE [w |-> [c.w EXCEPT !.metrics.duplicates_found = @ + 1],
                                is_duplicate |-> TRUE, redis_key |-> redis_key]

\* remove_slot(slot_data): manual removal of a key from the dedup cache
remove_slot(w, slot_data, up) ==
    LET c == IF w.client = "None" THEN connect(w, up) ELSE [w |-> w, ok |-> TRUE]
    IN  IF ~c.ok \/ ~up
        THEN [w |-> c.w, removed |-> FALSE]
        ELSE LET r == redis_delete(c.w.cache, generate_slot_key(slot_data))
             IN  [w |-> [c.w EXCEPT !.cache = r.db], removed |-> r.result = 1]

\* check_multiple_slots with the duplicates collected in front
RECURSIVE check_multiple_slots_prepending(_, _, _, _)
check_multiple_slots_prepending(w, slots_data, ups, t) ==
    IF slots_data = <<>>
    THEN [w |-> w, new_slots |-> <<>>, duplicate_slots |-> <<>>, flags |-> <<>>]
    ELSE LET r == is_duplicate_slot(w, Head(slots_data), Head(ups), t)
             Rest(rest) ==
                 [w |-> rest.w,
                  new_slots |-> IF r.is_duplicate THEN rest.new_slots
                                ELSE <<Head(slots_data)>> \o rest.new_slots,
                  duplicate_slots |->
                      IF r.is_duplicate
                      THEN rest.duplicate_slots
                              \o <<[slot |-> Head(slots_data), redis_key |-> r.redis_key]>>
                      ELSE rest.duplicate_slots,
                  flags |-> <<r.is_duplicate>> \o rest.flags]
         IN  Rest(check_multiple_slots_prepending(r.w, Tail(slots_data), Tail(ups), t))

\* check_multiple_slots(slots_data): ups[i] says whether the backend answers
\* the i-th check; flags[i] is the i-th check's is_duplicate
RECURSIVE check_multiple_slots(_, _, _, _)
check_multiple_slots(w, slots_data, ups, t) ==
    IF slots_data = <<>>
    THEN [w |-> w, new_slots |-> <<>>, duplicate_slots |-> <<>>, flags |-> <<>>]
    ELSE LET slot == Head(slots_data)
             Collect(r, rest) ==
                 [w |-> rest.w,
                  new_slots |-> IF r.is_duplicate THEN rest.new_slots
                                ELSE <<slot>> \o rest.new_slots,
                  duplicate_slots |->
                      IF r.is_duplicate
                      THEN <<[slot |-> slot, redis_key |-> r.redis_key]>>
                               \o rest.duplicate_slots
                      ELSE rest.duplicate_slots,
                  flags |-> <<r.is_duplicate>> \o rest.flags]
             Step(r) ==
                 Collect(r, check_multiple_slots(r.w, Tail(slots_data), Tail(ups), t))
         IN  Step(is_duplicate_slot(w, slot, Head(ups), t))

(***************************************************************************)
(* RedisPublisher.  p is [client, queue].                                  *)
(***************************************************************************)
required_fields ==
    {"venueId", "venueName", "courtId", "courtName", "date", "startTime",
     "endTime", "price", "isAvailable", "bookingUrl"}

\* json.dumps(slot_data, default=str)
json_dumps(slot_data) == <<"json", slot_data>>

\* RedisPublisher.connect(): the client attribute is assigned before the ping
publisher_connect(p, up) == [p |-> [p EXCEPT !.client = "Redis"], ok |-> up]

\* publish_slot, were the message pushed at the other end of the list
publish_slot_rpush(p, slot_data, up) ==
    LET c == IF p.client = "None" THEN publisher_connect(p, up) ELSE [p |-> p, ok |-> TRUE]
    IN  IF ~c.ok THEN [p |-> c.p, published |-> FALSE]
        ELSE IF \E f \in required_fields : f \notin DOMAIN slot_data
        THEN [p |-> c.p, published |-> FALSE]
        ELSE IF ~up
        THEN [p |-> c.p, published |-> FALSE]
        ELSE [p |-> [c.p EXCEPT !.queue = @ \o <<json_dumps(slot_data)>>],
              published |-> TRUE]

\* publish_slot(slot_data)
publish_slot(p, slot_data, up) ==
    LET c == IF p.client = "None" THEN publisher_connect(p, up) ELSE [p |-> p, ok |-> TRUE]
    IN  IF ~c.ok THEN [p |-> c.p, published |-> FALSE]
        ELSE IF \E f \in required_fields : f \notin DOMAIN slot_data
        THEN [p |-> c.p, published |-> FALSE]
        ELSE IF ~up
        THEN \* lpush raises: except Exception
             [p |-> c.p, published |-> FALSE]
        ELSE [p |-> [c.p EXCEPT !.queue = <<json_dumps(slot_data)>> \o @],
              published |-> TRUE]

\* publish_new_slots(new_slots): qups[i] says whether the queue answers the
\* i-th push
RECURSIVE publish_new_slots(_, _, _)
publish_new_slots(p, new_slots, qups) ==
    IF new_slots = <<>> THEN [p |-> p, published_count |-> 0]
    ELSE LET r    == publish_slot(p, Head(new_slots), Head(qups))
             rest == publish_new_slots(r.p, Tail(new_slots), Tail(qups))
         IN  [p |-> rest.p,
              published_count |-> rest.published_count + (IF r.published THEN 1 ELSE 0)]

(***************************************************************************)
(* The document store: a collection is a sequence of documents.            *)
(***************************************************************************)
matches(doc, filter_query) ==
    \A f \in DOMAIN filter_query : doc[f] = filter_query[f]

\* collection.find_one(filter): <<>> for None, else <<doc>>
find_one(coll, filter_query) ==
    IF \E i \in 1..Len(coll) : matches(coll[i], filter_query)
    THEN LET i == CHOOSE i \in 1..Len(coll) :
                     /\ matches(coll[i], filter_query)
                     /\ \A j \in 1..(i - 1) : ~matches(coll[j], filter_query)
         IN  <<coll[i]>>
    ELSE <<>>

\* replace_one as an insert that never looks for a matching document
replace_one_insert_only(coll, filter_query, doc) == Append(coll, doc)

\* collection.replace_one(filter, doc) without upsert=True: a document is
\* written only over a matching one
replace_one_without_upsert(coll, filter_query, doc) ==
    IF \E i \in 1..Len(coll) : matches(coll[i], filter_query)
    THEN LET i == CHOOSE i \in 1..Len(coll) :
                     /\ matches(coll[i], filter_query)
                     /\ \A j \in 1..(i - 1) : ~matches(coll[j], filter_query)
         IN  [coll EXCEPT ![i] = doc]
    ELSE coll

\* collection.replace_one(filter, doc, upsert=True)
replace_one(coll, filter_query, doc) ==
    IF \E i \in 1..Len(coll) : matches(coll[i], filter_query)
    THEN LET i == CHOOSE i \in 1..Len(coll) :
                     /\ matches(coll[i], filter_query)
                     /\ \A j \in 1..(i - 1) : ~matches(coll[j], filter_query)
         IN  [coll EXCEPT ![i] = doc]
    ELSE Append(coll, doc)

\* collection.insert_one(doc)
insert_one(coll, doc) == Append(coll, doc)

(***************************************************************************)
(* ScraperOrchestrator.store_scraping_result                               *)
(***************************************************************************)
\* scraped_at.strftime('%Y-%m-%dT%H:%M:%SZ')
strftime(t) == <<"%Y-%m-%dT%H:%M:%SZ", t>>

\* the slot_doc built for each slot of result.slots_found
slot_doc(slot, platform) ==
    [venue_id |-> ObjectId(slot.venue_id), venue_name |-> slot.venue_name,
     court_id |-> slot.court_id, court_name |-> slot.court_name,
     date |-> slot.date, start_time |-> slot.start_time, end_time |-> slot.end_time,
     price |-> slot.price, currency |-> slot.currency, available |-> slot.available,
     booking_url |-> slot.booking_url, scraped_at |-> slot.scraped_at,
     platform |-> platform]

RECURSIVE slots_data_of(_, _)
slots_data_of(slots_found, platform) ==
    IF slots_found = <<>> THEN <<>>
    ELSE <<slot_doc(Head(slots_found), platform)>> \o slots_data_of(Tail(slots_found), platform)

natural_key(slot_doc_) ==
    [venue_id |-> slot_doc_.venue_id, court_id |-> slot_doc_.court_id,
     date |-> slot_doc_.date, start_time |-> slot_doc_.start_time]

\* the notification_slot dictionary; price is float(slot_doc["price"])
notification_slot(d) ==
    [venueId |-> str(d.venue_id), venueName |-> d.venue_name, platform |-> d.platform,
     courtId |-> d.court_id, courtName |-> d.court_name, date |-> d.date,
     startTime |-> d.start_time, endTime |-> d.end_time, price |-> d.price[1],
     isAvailable |-> d.available, bookingUrl |-> d.booking_url,
     scrapedAt |-> strftime(d.scraped_at)]

\* is_new_slot = existing_slot is None, with the lookup's answer ignored
is_new_slot_always(existing_slot) == TRUE

\* is_new_slot = existing_slot is None
is_new_slot_of(existing_slot) == existing_slot = <<>>

\* the condition under which a notification is built, without the is_new_slot test
notify_condition_ignores_new(is_new_slot, d) == d.available

\* if is_new_slot and slot_doc["available"]
notify_condition(is_new_slot, d) == is_new_slot /\ d.available

\* The loop over new_slots.  st is [slots, db_ok, notifications, trace,
\* raised]: the collection, the number of store operations that still
\* succeed, the batch built so far, what was done for each slot, and whether
\* an exception has left the loop.
process_slot(st, d) ==
    LET filter_query == natural_key(d)
        entry == [doc |-> d, is_duplicate |-> FALSE, looked_up |-> FALSE,
                  existed |-> FALSE, upserted |-> FALSE, notified |-> FALSE]
    IN  IF st.raised THEN [st EXCEPT !.trace = Append(@, entry)]
        ELSE IF st.db_ok = 0
        THEN \* find_one raises
             [st EXCEPT !.raised = TRUE, !.trace = Append(@, entry)]
        ELSE LET existing_slot == find_one(st.slots, filter_query)
                 is_new_slot == is_new_slot_of(existing_slot)
                 e1 == [entry EXCEPT !.looked_up = TRUE, !.existed = existing_slot # <<>>]
             IN  IF st.db_ok = 1
                 THEN \* replace_one raises
                      [st EXCEPT !.db_ok = 0, !.raised = TRUE, !.trace = Append(@, e1)]
                 ELSE LET st2 == [st EXCEPT !.db_ok = @ - 2,
                                            !.slots = replace_one(@, filter_query, d)]
                          e2 == [e1 EXCEPT !.upserted = TRUE]
                      IN  IF ~notify_condition(is_new_slot, d)
                          THEN [st2 EXCEPT !.trace = Append(@, e2)]
                          ELSE IF d.price = <<>>
                          THEN \* float(None) raises TypeError
                               [st2 EXCEPT !.raised = TRUE, !.trace = Append(@, e2)]
                          ELSE [st2 EXCEPT
                                   !.notifications = Append(@, notification_slot(d)),
                                   !.trace = Append(@, [e2 EXCEPT !.notified = TRUE])]

RECURSIVE process_new_slots(_, _)
process_new_slots(st, new_slots) ==
    IF new_slots = <<>> THEN st
    ELSE process_new_slots(process_slot(st, Head(new_slots)), Tail(new_slots))

\* the slots handed on to the store loop, were duplicates not dropped
slots_to_process_all(slots_data, chk) == slots_data

\* for slot_doc in new_slots
slots_to_process(slots_data, chk) == chk.new_slots

log_doc(result, t) ==
    [venue_id |-> ObjectId(result.venue_id), venue_name |-> result.venue_name,
     platform |-> result.platform, scrape_timestamp |-> result.scraped_at,
     success |-> result.success, slots_found |-> Len(result.slots_found),
     scrape_duration_ms |-> result.duration_ms, errors |-> result.errors,
     created_at |-> t]

\* the publish step without its try/except: a failed push leaves the call
publish_batch_unguarded(pub, notifications, qups) ==
    LET p0 == IF pub.client = "None" THEN publisher_connect(pub, Head(qups)).p ELSE pub
        Counted(r) ==
            [p |-> r.p, published_count |-> r.published_count,
             raised |-> r.published_count < Len(notifications)]
    IN  Counted(publish_new_slots(p0, notifications, qups))

\* if new_slots_for_notification: try: connect_to_redis() when the publisher
\* has no client, publish_new_slots(...); except Exception: logged.  Neither
\* call lets an exception out (connect_to_redis and publish_slot catch
\* their own), so raised is always FALSE.
publish_batch(pub, notifications, qups) ==
    LET p0 == IF pub.client = "None" THEN publisher_connect(pub, Head(qups)).p ELSE pub
        Counted(r) ==
            [p |-> r.p, published_count |-> r.published_count, raised |-> FALSE]
    IN  Counted(publish_new_slots(p0, notifications, qups))

\* store_scraping_result(result).  g is [w, pub, slots, scraping_logs]; f
\* is what the three backends do during the call (see Faults).  The value
\* carries the new g, the per-slot trace and whether the outer except was
\* reached.
store_scraping_result(g, result, f, t) ==
    LET slots_data == slots_data_of(result.slots_found, result.platform)
        st0 == [slots |-> g.slots, db_ok |-> f.db_ok, notifications |-> <<>>,
                trace |-> <<>>, raised |-> FALSE]
        dup_trace_of(chk) ==
            [i \in 1..Len(chk.duplicate_slots) |->
                [doc |-> chk.duplicate_slots[i].slot, is_duplicate |-> TRUE,
                 looked_up |-> FALSE, existed |-> FALSE, upserted |-> FALSE,
                 notified |-> FALSE]]
        Return(chk, st, pub, reached_log) ==
            LET g2 == [g EXCEPT !.w = chk.w, !.slots = st.slots, !.pub = pub.p]
                logged == reached_log /\ f.log_ok
            IN  [g |-> IF logged
                       THEN [g2 EXCEPT !.scraping_logs = insert_one(@, log_doc(result, t))]
                       ELSE g2,
                 trace |-> st.trace, dup_trace |-> dup_trace_of(chk), flags |-> chk.flags,
                 notifications |-> st.notifications,
                 published_count |-> pub.published_count,
                 \* the outer except: the slot loop or insert_one raised
                 raised |-> ~logged, logged |-> logged]
        Publish(chk, st) ==
            IF st.raised
            THEN Return(chk, st, [p |-> g.pub, published_count |-> 0], FALSE)
            ELSE IF st.notifications # <<>>
            THEN LET Published(pub) == Return(chk, st, pub, ~pub.raised)
                 IN  Published(publish_batch(g.pub, st.notifications, f.qups))
            ELSE Return(chk, st, [p |-> g.pub, published_count |-> 0], TRUE)
        Store(chk) ==
            Publish(chk, process_new_slots(st0, slots_to_process(slots_data, chk)))
    IN  IF result.slots_found # <<>>
        THEN Store(check_multiple_slots(g.w, slots_data, f.ups, t))
        ELSE Store([w |-> g.w, new_slots |-> <<>>, duplicate_slots |-> <<>>,
                    flags |-> <<>>])

(***************************************************************************)
(* Inputs of the key-generation specification: slot dictionaries whose     *)
(* joined tuple is short, exactly at the limit, one over it and far over   *)
(* it, with a missing court_id, and with the venue id "hash".              *)
(***************************************************************************)
BoundaryLen == KeyLengthLimit - Len(":2025-06-10:18:00:1")

KeyVenueIds == {"507f1f77bcf86cd799439011", "hash", Rep("a", BoundaryLen),
                Rep("a", BoundaryLen + 1), Rep("b", 2 * KeyLengthLimit)}

KeyRest == { [court_name |-> "court 1", end_time |-> "19:00", price |-> 8,  available |-> TRUE],
             [court_name |-> "centre",  end_time |-> "20:00", price |-> 10, available |-> FALSE] }

KeySlots ==
    { [venue_id |-> v, date |-> "2025-06-10", start_time |-> s, court_id |-> "1",
       court_name |-> r.court_name, end_time |-> r.end_time, price |-> r.price,
       available |-> r.available] : v \in KeyVenueIds, s \in {"18:00", "19:00"}, r \in KeyRest }
    \cup
    { [venue_id |-> v, date |-> "2025-06-10",
       court_name |-> r.court_name, end_time |-> r.end_time, price |-> r.price,
       available |-> r.available] : v \in KeyVenueIds, r \in KeyRest }

(***************************************************************************)
(* Initial state: a freshly constructed deduplicator (__init__), an empty  *)
(* dedup database.                                                         *)
(***************************************************************************)
EmptyMap == [k \in {} |-> 0]

\* ScraperOrchestrator.__init__: no connection yet; the external stores empty
\* ScrapingScheduler.__init__: running = False, next_run_time = None
\* (pc "off": start_scheduler not called yet); time is the scheduler's clock,
\* started and finished count the run_scraping_session calls
sched0 ==
    [pc |-> "off", running |-> FALSE, next_run_time |-> <<>>, time |-> 0,
     started |-> 0, finished |-> 0]

\* no second process has been started
inst0 == <<>>

PipelineInit ==
    /\ pub_client = "None"
    /\ queue = <<>>
    /\ slots = <<>>
    /\ scraping_logs = <<>>
    /\ pc = "idle"
    /\ venues = <<>>
    /\ idx = 0
    /\ results = <<>>
    /\ sessions = 0
    /\ attempts = <<>>
    /\ stored = <<>>
    /\ system_status = <<>>
    /\ conn = [mongo |-> "none", dedup |-> "none"]
    /\ sched = sched0
    /\ inst = inst0

Init ==
    /\ client = "None"
    /\ metrics = metrics0
    /\ cache = EmptyMap
    /\ now = 0
    /\ last = [op |-> "init"]
    /\ key_in = <<>>
    /\ key_out = <<>>
    /\ PipelineInit

(***************************************************************************)
(* Key generation: the initial states draw two slot dictionaries, the step *)
(* hands each to generate_slot_key.                                        *)
(***************************************************************************)
InitKey ==
    /\ client = "None"
    /\ metrics = metrics0
    /\ cache = EmptyMap
    /\ now = 0
    /\ last = [op |-> "init"]
    /\ key_in \in KeySlots \X KeySlots
    /\ key_out = <<>>
    /\ PipelineInit

GenerateKeys ==
    /\ key_out = <<>>
    /\ key_out' = <<generate_slot_key(key_in[1]), generate_slot_key(key_in[2])>>
    /\ UNCHANGED <<client, metrics, cache, now, last, key_in, pipeVars, sessVars, conn, restVars>>

NextKey == GenerateKeys

SpecKey == InitKey /\ [][NextKey]_vars

(***************************************************************************)
(* The deduplicator on its own: single checks, manual removals, counter    *)
(* resets and the passing of time, against a backend that is up or down    *)
(* at each call.                                                           *)
(***************************************************************************)
DedupSlots ==
    { [venue_id |-> "507f1f77bcf86cd799439011", date |-> "2025-06-10",
       start_time |-> "18:00", court_id |-> c, court_name |-> "court " \o c,
       end_time |-> "19:00", price |-> p, available |-> TRUE] :
         c \in {"1", "2"}, p \in {8, 10} }

World == [client |-> client, metrics |-> metrics, cache |-> cache]

CheckSlot ==
    \E slot_data \in DedupSlots, up \in BOOLEAN :
        /\ metrics.total_checks < MaxChecks
        /\ LET r == is_duplicate_slot(World, slot_data, up, now)
           IN  /\ client' = r.w.client
               /\ metrics' = r.w.metrics
               /\ cache' = r.w.cache
               /\ last' = [op |-> "is_duplicate_slot", slot |-> slot_data, up |-> up,
                           is_duplicate |-> r.is_duplicate, redis_key |-> r.redis_key,
                           before |-> World]
        /\ conn' = [conn EXCEPT !.dedup = "open"]
        /\ UNCHANGED <<now, keyVars, pipeVars, sessVars, restVars>>

RemoveSlot ==
    \E slot_data \in DedupSlots, up \in BOOLEAN :
        /\ LET r == remove_slot(World, slot_data, up)
           IN  /\ client' = r.w.client
               /\ metrics' = r.w.metrics
               /\ cache' = r.w.cache
               /\ last' = [op |-> "remove_slot", slot |-> slot_data, up |-> up,
                           removed |-> r.removed]
        /\ conn' = [conn EXCEPT !.dedup = "open"]
        /\ UNCHANGED <<now, keyVars, pipeVars, sessVars, restVars>>

\* reset_metrics()
ResetMetrics ==
    /\ metrics # metrics0
    /\ metrics' = metrics0
    /\ last' = [op |-> "reset_metrics"]
    /\ UNCHANGED <<client, cache, now, keyVars, pipeVars, sessVars, conn, restVars>>

\* TickSeconds pass (between sessions: a session is short against a tick);
\* Redis drops the keys whose expiry has been reached
Tick ==
    /\ pc = "idle"
    /\ now < MaxClock
    /\ now' = now + 1
    /\ cache' = redis_expire(cache, TickSeconds)
    /\ last' = [op |-> "tick"]
    /\ UNCHANGED <<client, metrics, keyVars, pipeVars, sessVars, conn, restVars>>

NextDedup == CheckSlot \/ RemoveSlot \/ ResetMetrics \/ Tick

SpecDedup == Init /\ [][NextDedup]_vars

(***************************************************************************)
(* ScraperOrchestrator: one session after another.  A session loads the    *)
(* venues, then for each venue scrapes it (the scraper is awaited) and      *)
(* stores the result, then writes its summary.                             *)
(***************************************************************************)
\* self.scrapers with COURTSIDE_ENABLED and CLUBSPARK_ENABLED at their defaults
scrapers == {"courtside", "clubspark"}

\* the venues collection
VenueDocs ==
    << [_id |-> "507f1f77bcf86cd799439011", name |-> "victoria park",
        scraper_config |-> [type |-> "courtside"]],
       [_id |-> "507f1f77bcf86cd799439012", name |-> "ropemakers field",
        scraper_config |-> [type |-> "courtsides"]],
       [_id |-> "507f1f77bcf86cd799439013", name |-> "stratford park",
        scraper_config |-> [type |-> "clubspark"]] >>

\* a ScrapedSlot as a platform scraper builds it at time t
ScrapedSlot(venue, court, price, available, t) ==
    [venue_id |-> venue._id, venue_name |-> venue.name, court_id |-> court,
     court_name |-> "court " \o court, date |-> "2025-06-10", start_time |-> "18:00",
     end_time |-> "19:00", price |-> price, currency |-> "GBP", available |-> available,
     booking_url |-> "https://" \o venue.name, scraped_at |-> t]

\* What a venue's booking page can show at time t, in page order: court 2
\* without a price, court 1 bookable at one price and not bookable at another.
Page(venue, t) ==
    << ScrapedSlot(venue, "2", <<>>, TRUE, t), ScrapedSlot(venue, "1", <<8>>, TRUE, t),
       ScrapedSlot(venue, "1", <<10>>, FALSE, t) >>

\* the sub-lists of at most n entries of a list, in the list's order
RECURSIVE Pick(_, _)
Pick(list, S) ==
    IF list = <<>> THEN <<>>
    ELSE LET rest == Pick(Tail(list), {i - 1 : i \in S \ {1}})
         IN  IF 1 \in S THEN <<Head(list)>> \o rest ELSE rest

SubLists(list, n) ==
    { Pick(list, S) : S \in {T \in SUBSET (1..Len(list)) : Cardinality(T) <= n} }

\* what awaiting scraper.scrape_availability(target_dates) may yield: any
\* part of the page
ScrapeOutcomes(venue, t) ==
    { [kind |-> "result", slots_found |-> sl, errors |-> <<>>] :
        sl \in SubLists(Page(venue, t), MaxBatch) }

\* ... in the session specification: an exception, an empty result, a result
\* with the priced bookable slot of the page, and the same with an error
\* for one date
SessionOutcomes(venue, t) ==
    { [kind |-> "raise", text |-> "page timeout"],
      [kind |-> "result", slots_found |-> <<>>, errors |-> <<>>],
      [kind |-> "result", slots_found |-> <<Page(venue, t)[2]>>, errors |-> <<>>],
      [kind |-> "result", slots_found |-> <<Page(venue, t)[2]>>,
       errors |-> <<"no data for 2025-06-11">>] }

\* ... when a venue is visited again and again: an empty result or the
\* priced bookable slot of the page
RevisitOutcomes(venue, t) ==
    { [kind |-> "result", slots_found |-> <<>>, errors |-> <<>>],
      [kind |-> "result", slots_found |-> <<Page(venue, t)[2]>>, errors |-> <<>>] }

\* what the scraper of a venue may yield at time t, by the name of the
\* scraper behaviour a specification explores
scraper_outcomes(behaviour, venue, t) ==
    CASE behaviour = "page"    -> ScrapeOutcomes(venue, t)
      [] behaviour = "session" -> SessionOutcomes(venue, t)
      [] behaviour = "revisit" -> RevisitOutcomes(venue, t)

\* What the three backends do during one store_scraping_result call: ups[i]
\* and qups[i] say whether the cache answers the i-th check and the queue
\* the i-th push, db_ok is the number of slot lookups and upserts that
\* succeed, log_ok whether the log insert does.
AllOps == 2 * Len(Page(VenueDocs[1], 0))
AllUp == [i \in 1..Len(Page(VenueDocs[1], 0)) |-> TRUE]
AllDown == [i \in 1..Len(Page(VenueDocs[1], 0)) |-> FALSE]
NoFault == [ups |-> AllUp, db_ok |-> AllOps, log_ok |-> TRUE, qups |-> AllUp]

Faults ==
    { NoFault,
      [NoFault EXCEPT !.ups = AllDown],
      [NoFault EXCEPT !.db_ok = 0, !.log_ok = FALSE],
      [NoFault EXCEPT !.db_ok = 1, !.log_ok = FALSE],
      [NoFault EXCEPT !.db_ok = 2],
      [NoFault EXCEPT !.log_ok = FALSE],
      [NoFault EXCEPT !.qups = AllDown] }

SessionFaults == { NoFault }

\* the ScrapingResult scrape_all_venues builds in its except branch
error_result(venue, exc, t) ==
    [venue_id |-> venue._id, venue_name |-> venue.name,
     platform |-> venue.scraper_config.type, success |-> FALSE, slots_found |-> <<>>,
     errors |-> <<"Error scraping venue " \o venue.name \o ": " \o exc>>,
     duration_ms |-> 0, scraped_at |-> t]

\* scrape_venue(venue_config): [raised, result] or [raised, text]
scrape_venue(venue_config, outcome, t) ==
    LET platform_type == venue_config.scraper_config.type
    IN  IF platform_type \notin scrapers
        THEN [raised |-> FALSE, kind |-> "no_scraper",
              result |-> [venue_id |-> venue_config._id, venue_name |-> venue_config.name,
                          platform |-> platform_type, success |-> FALSE,
                          slots_found |-> <<>>,
                          errors |-> <<"No scraper available for platform: " \o platform_type>>,
                          duration_ms |-> 0, scraped_at |-> t]]
        ELSE IF outcome.kind = "raise"
        THEN [raised |-> TRUE, kind |-> "raise", text |-> outcome.text]
        ELSE [raised |-> FALSE, kind |-> "scraped",
              result |-> [venue_id |-> venue_config._id, venue_name |-> venue_config.name,
                          platform |-> platform_type, success |-> outcome.errors = <<>>,
                          slots_found |-> outcome.slots_found, errors |-> outcome.errors,
                          duration_ms |-> 1500, scraped_at |-> t]]

\* load_venues(venue_names): [] when the query raises
load_venues(venue_names, mongo_up) ==
    IF ~mongo_up THEN <<>>
    ELSE IF venue_names = <<>> THEN VenueDocs
    ELSE SelectSeq(VenueDocs, LAMBDA v : \E i \in 1..Len(venue_names) : venue_names[i] = v.name)

\* the venue loop, were the scrapes started one after another and the
\* results stored once all are in
after_scrape_all_first(i, n) ==
    IF i < n THEN "scrape" ELSE "store"

\* result = await self.scrape_venue(...); results.append(result); await
\* self.store_scraping_result(result): the result (or the error result of
\* the except branch) is stored before the loop does anything else
after_scrape(i, n) == "store"

\* the venue loop, were it left at the first failed venue
after_venue_stop_on_failure(i, n, failed) ==
    IF i < n /\ ~failed THEN "scrape" ELSE "finish"

\* for venue in venues: the loop goes on to the next venue whatever happened
after_venue(i, n, failed) ==
    IF i < n THEN "scrape" ELSE "finish"

Globals ==
    [w |-> World, pub |-> [client |-> pub_client, queue |-> queue],
     slots |-> slots, scraping_logs |-> scraping_logs]

\* run_scraping_session up to the first await: connect_mongodb, load_venues
StartSessionWith(Names, MongoUps, limit) ==
    /\ pc = "idle"
    /\ sessions < limit
    /\ \E venue_names \in Names, mongo_up \in MongoUps :
        /\ sessions' = sessions + 1
        /\ venues' = load_venues(venue_names, mongo_up)
        /\ results' = <<>>
        /\ attempts' = <<>>
        /\ stored' = <<>>
        /\ idx' = 1
        /\ pc' = IF venues' = <<>> THEN "finish" ELSE "scrape"
        /\ last' = [op |-> "start_session", venue_names |-> venue_names, mongo_up |-> mongo_up]
        /\ conn' = [conn EXCEPT !.mongo = "open"]
        /\ UNCHANGED <<dedupVars, now, keyVars, pipeVars, restVars>>

\* the loop body of scrape_all_venues up to the result: scrape_venue returns
\* or raises, and the (error) result is appended;
\* scraper_outcomes(behaviour, venue, t) is
\* what the scraper may yield
ScrapeVenueWith(behaviour) ==
    /\ pc = "scrape"
    /\ "scraper_config" \in DOMAIN venues[idx]
    /\ \E outcome \in scraper_outcomes(behaviour, venues[idx], now) :
        /\ \E r \in {scrape_venue(venues[idx], outcome, now)} :
           \E result \in {IF r.raised THEN error_result(venues[idx], r.text, now)
                           ELSE r.result} :
               /\ results' = Append(results, result)
               /\ attempts' = Append(attempts,
                                 [venue_id |-> venues[idx]._id, kind |-> r.kind,
                                  text |-> IF r.raised THEN r.text ELSE ""])
               /\ last' = [op |-> "scrape_venue", venue |-> venues[idx], raised |-> r.raised]
        /\ pc' = after_scrape(idx, Len(venues))
        /\ UNCHANGED <<dedupVars, now, keyVars, pipeVars, venues, idx, sessions, stored,
                       conn, restVars>>

\* await self.store_scraping_result(result), then on to the next venue
StoreResultWith(FaultSet) ==
    /\ pc = "store"
    /\ \E f \in FaultSet :
        /\ \E result \in {results[Len(results)]} :
           \E r \in {store_scraping_result(Globals, result, f, now)} :
               /\ client' = r.g.w.client
               /\ metrics' = r.g.w.metrics
               /\ cache' = r.g.w.cache
               /\ pub_client' = r.g.pub.client
               /\ queue' = r.g.pub.queue
               /\ slots' = r.g.slots
               /\ scraping_logs' = r.g.scraping_logs
               /\ stored' = Append(stored, result)
               /\ last' = [op |-> "store_scraping_result", result |-> result, f |-> f,
                           before |-> Globals, trace |-> r.trace,
                           dup_trace |-> r.dup_trace, flags |-> r.flags,
                           notifications |-> r.notifications,
                           published_count |-> r.published_count,
                           raised |-> r.raised, logged |-> r.logged]
        /\ pc' = after_venue(idx, Len(venues), ~results[Len(results)].success)
        /\ idx' = idx + 1
        /\ conn' = [conn EXCEPT !.dedup = IF results[Len(results)].slots_found # <<>>
                                        THEN "open" ELSE @]
        /\ UNCHANGED <<now, keyVars, venues, results, sessions, attempts, restVars>>

\* update_last_scrape_time, were the document inserted anew each time
update_last_scrape_time_insert(status, ok, t) ==
    IF ~ok THEN status
    ELSE Append(status, [_id |-> "scraper_status", last_scrape_time |-> t,
                         updated_at |-> t, created_at |-> t])

\* update_last_scrape_time(): upsert of the "scraper_status" document
\* ($set last_scrape_time and updated_at, $setOnInsert created_at); an
\* exception is logged and dropped
update_last_scrape_time(status, ok, t) ==
    IF ~ok THEN status
    ELSE IF status = <<>>
    THEN <<[_id |-> "scraper_status", last_scrape_time |-> t, updated_at |-> t,
            created_at |-> t]>>
    ELSE <<[status[1] EXCEPT !.last_scrape_time = t, !.updated_at = t]>>

\* the summary statistics of run_scraping_session: total_venues,
\* successful_venues, total_slots, total_errors, each from the results list
RECURSIVE session_summary(_)
session_summary(rs) ==
    IF rs = <<>>
    THEN [total_venues |-> 0, successful_venues |-> 0, total_slots |-> 0,
          total_errors |-> 0]
    ELSE LET Add(r, rest) ==
                 [total_venues |-> rest.total_venues + 1,
                  successful_venues |-> rest.successful_venues
                                           + (IF r.success THEN 1 ELSE 0),
                  total_slots |-> rest.total_slots + Len(r.slots_found),
                  total_errors |-> rest.total_errors + Len(r.errors)]
         IN  Add(Head(rs), session_summary(Tail(rs)))

\* a finally block that forgets the deduplicator
finally_close_mongo_only(c, dedup_client) ==
    [c EXCEPT !.mongo = IF @ = "none" THEN @ ELSE "closed"]

\* finally: self.disconnect_mongodb(); self.redis_deduplicator.close().
\* Each closes when its client attribute is set; the attributes stay set.
finally_close(c, dedup_client) ==
    [mongo |-> IF c.mongo = "none" THEN "none" ELSE "closed",
     dedup |-> IF dedup_client = "None" THEN c.dedup ELSE "closed"]

\* the end of run_scraping_session: summary, update_last_scrape_time,
\* return results, and the finally block
FinishSessionWith(StatusUps) ==
    /\ pc = "finish"
    /\ pc' = "idle"
    /\ \E ok \in StatusUps :
          /\ system_status' = update_last_scrape_time(system_status, ok, now)
          /\ last' = [op |-> "run_scraping_session", results |-> results,
                      venues |-> venues, exit |-> "return",
                      summary |-> session_summary(results), status_ok |-> ok]
    /\ conn' = finally_close(conn, client)
    /\ UNCHANGED <<dedupVars, now, keyVars, pipeVars, venues, idx, results, sessions,
                   attempts, stored, extVars>>

FinishSession == FinishSessionWith({TRUE})

\* the dedup Redis is restarted, or evicts its keys: the keys are gone
CacheRestart ==
    /\ pc = "idle"
    /\ cache # EmptyMap
    /\ cache' = EmptyMap
    /\ last' = [op |-> "cache_restart"]
    /\ UNCHANGED <<client, metrics, now, keyVars, pipeVars, sessVars, conn, restVars>>

(***************************************************************************)
(* Spec: sessions of one orchestrator over one venue, with every part of   *)
(* the venue's page as scrape result and every backend fault.              *)
(***************************************************************************)
StartSession == StartSessionWith({<<"victoria park">>}, {TRUE}, MaxSessions)
ScrapeVenue ==
    ScrapeVenueWith("page")
StoreResult == StoreResultWith(Faults)

Next == StartSession \/ ScrapeVenue \/ StoreResult \/ FinishSession \/ Tick \/ CacheRestart

Spec == Init /\ [][Next]_vars

(***************************************************************************)
(* SpecSession: sessions over the whole venue list (or a name filter),     *)
(* with scrapers that raise, find nothing or find one slot.                *)
(***************************************************************************)
\* the venue_names a session is started with: none, a venue, an unknown name
SessionVenueNames == {<<>>, <<"stratford park">>, <<"no such venue">>}

StartSessionAll == StartSessionWith(SessionVenueNames, BOOLEAN, MaxRuns)
ScrapeVenueAll ==
    ScrapeVenueWith("session")
StoreResultAll == StoreResultWith(SessionFaults)

NextSession == StartSessionAll \/ ScrapeVenueAll \/ StoreResultAll \/ FinishSession \/ Tick

SpecSession == Init /\ [][NextSession]_vars

(***************************************************************************)
(* SpecRevisit: one venue visited session after session, its page showing  *)
(* one bookable slot or nothing, with the notification queue up or down.   *)
(***************************************************************************)
RevisitFaults == { NoFault, [NoFault EXCEPT !.qups = AllDown] }

StartSessionRevisit == StartSessionWith({<<"victoria park">>}, {TRUE}, MaxVisits)
ScrapeVenueRevisit ==
    ScrapeVenueWith("revisit")
StoreResultRevisit == StoreResultWith(RevisitFaults)

NextRevisit ==
    StartSessionRevisit \/ ScrapeVenueRevisit \/ StoreResultRevisit \/ FinishSession \/ Tick

SpecRevisit == Init /\ [][NextRevisit]_vars

(***************************************************************************)
(* SpecOrchestrator: the two entry points of one orchestrator,             *)
(* run_scraping_session and test_single_venue, each left by return, by     *)
(* early return or by an exception that no handler of the call catches     *)
(* (KeyboardInterrupt, SystemExit, CancelledError).                        *)
(***************************************************************************)
\* where an exception may leave store_scraping_result half done: after the
\* dedup check, or after the upserts and before the attempt log
InterruptPoints ==
    { [NoFault EXCEPT !.db_ok = 0, !.log_ok = FALSE],
      [NoFault EXCEPT !.log_ok = FALSE] }

\* test_single_venue up to the first await: connect_mongodb, load_venues,
\* "not found" return, scraper class lookup (KeyError for a platform without
\* scraper, caught by except Exception: return None), and the finally block
\* on both early exits
StartTest(Names, MongoUps, limit) ==
    /\ pc = "idle"
    /\ sessions < limit
    /\ \E venue_name \in Names, mongo_up \in MongoUps :
        /\ sessions' = sessions + 1
        /\ venues' = load_venues(<<venue_name>>, mongo_up)
        /\ results' = <<>>
        /\ attempts' = <<>>
        /\ stored' = <<>>
        /\ idx' = 1
        /\ IF venues' = <<>>
           THEN /\ pc' = "idle"
                /\ conn' = finally_close([conn EXCEPT !.mongo = "open"], client)
                /\ last' = [op |-> "test_single_venue", venue_name |-> venue_name,
                            exit |-> "not found", value |-> <<>>]
           ELSE IF venues'[1].scraper_config.type \notin scrapers
           THEN /\ pc' = "idle"
                /\ conn' = finally_close([conn EXCEPT !.mongo = "open"], client)
                /\ last' = [op |-> "test_single_venue", venue_name |-> venue_name,
                            exit |-> "KeyError", value |-> <<>>]
           ELSE /\ pc' = "test_scrape"
                /\ conn' = [conn EXCEPT !.mongo = "open"]
                /\ last' = [op |-> "start_test", venue_name |-> venue_name,
                            mongo_up |-> mongo_up]
        /\ UNCHANGED <<dedupVars, now, keyVars, pipeVars, restVars>>

\* result = await self.scrape_venue(venue, target_dates); an exception of
\* the scraper ends the call with None
TestScrape(behaviour) ==
    /\ pc = "test_scrape"
    /\ \E outcome \in scraper_outcomes(behaviour, venues[1], now) :
       \E r \in {scrape_venue(venues[1], outcome, now)} :
           /\ attempts' = Append(attempts,
                             [venue_id |-> venues[1]._id, kind |-> r.kind,
                              text |-> IF r.raised THEN r.text ELSE ""])
           /\ IF r.raised
              THEN /\ pc' = "idle"
                   /\ results' = results
                   /\ conn' = finally_close(conn, client)
                   /\ last' = [op |-> "test_single_venue", venue_name |-> venues[1].name,
                               exit |-> "Exception", value |-> <<>>]
              ELSE /\ pc' = "test_store"
                   /\ results' = <<r.result>>
                   /\ conn' = conn
                   /\ last' = [op |-> "scrape_venue", venue |-> venues[1],
                               raised |-> FALSE]
    /\ UNCHANGED <<dedupVars, now, keyVars, pipeVars, venues, idx, sessions, stored,
                   restVars>>

\* await self.store_scraping_result(result); return result; finally
TestStore(FaultSet) ==
    /\ pc = "test_store"
    /\ \E f \in FaultSet :
       \E r \in {store_scraping_result(Globals, results[1], f, now)} :
           /\ client' = r.g.w.client
           /\ metrics' = r.g.w.metrics
           /\ cache' = r.g.w.cache
           /\ pub_client' = r.g.pub.client
           /\ queue' = r.g.pub.queue
           /\ slots' = r.g.slots
           /\ scraping_logs' = r.g.scraping_logs
           /\ stored' = <<results[1]>>
           /\ conn' = finally_close([conn EXCEPT !.dedup =
                                        IF results[1].slots_found # <<>> THEN "open" ELSE @],
                                    r.g.w.client)
           /\ last' = [op |-> "test_single_venue", venue_name |-> venues[1].name,
                       exit |-> "return", value |-> <<results[1]>>,
                       before |-> Globals, f |-> f]
    /\ pc' = "idle"
    /\ UNCHANGED <<now, keyVars, venues, idx, results, sessions, attempts, restVars>>

\* the name of the entry point that is running
entry_point == IF pc \in {"test_scrape", "test_store"}
               THEN "test_single_venue" ELSE "run_scraping_session"

\* KeyboardInterrupt, SystemExit or CancelledError is raised in the running
\* call.  It is no Exception: the venue loop and both entry points let it
\* pass, and only the finally block of the entry point runs.  It arrives
\* while the scraper is awaited or between two steps (first disjunct) or
\* inside store_scraping_result (second disjunct).
InterruptCore ==
    /\ \/ /\ pc \in {"scrape", "store", "finish", "test_scrape", "test_store"}
          /\ conn' = finally_close(conn, client)
          /\ UNCHANGED <<dedupVars, pipeVars>>
       \/ /\ pc \in {"store", "test_store"}
          /\ \E f \in InterruptPoints :
             \E r \in {store_scraping_result(Globals, results[Len(results)], f, now)} :
                 /\ client' = r.g.w.client
                 /\ metrics' = r.g.w.metrics
                 /\ cache' = r.g.w.cache
                 /\ pub_client' = r.g.pub.client
                 /\ queue' = r.g.pub.queue
                 /\ slots' = r.g.slots
                 /\ scraping_logs' = r.g.scraping_logs
                 /\ conn' = finally_close(
                               [conn EXCEPT !.dedup =
                                   IF results[Len(results)].slots_found # <<>>
                                   THEN "open" ELSE @],
                               r.g.w.client)
    /\ pc' = "idle"
    /\ last' = [op |-> entry_point, exit |-> "BaseException", at |-> pc,
                venue |-> IF idx \in 1..Len(venues) THEN <<venues[idx]._id>> ELSE <<>>]
    /\ UNCHANGED <<now, keyVars, venues, idx, results, sessions, attempts, stored,
                   system_status, inst>>

Interrupt == InterruptCore /\ UNCHANGED sched

\* the venue_names of run_scraping_session and the venue_name of
\* test_single_venue
OrchVenueNames == {<<>>, <<"no such venue">>}
TestVenueNames == {"victoria park", "ropemakers field", "no such venue"}

StartSessionOrch == StartSessionWith(OrchVenueNames, BOOLEAN, MaxCalls)
StartTestOrch == StartTest(TestVenueNames, BOOLEAN, MaxCalls)
TestScrapeOrch ==
    TestScrape("session")
TestStoreOrch == TestStore(SessionFaults)
FinishSessionOrch == FinishSessionWith(BOOLEAN)

NextOrchestrator ==
    \/ StartSessionOrch \/ ScrapeVenueAll \/ StoreResultAll \/ FinishSessionOrch
    \/ StartTestOrch \/ TestScrapeOrch \/ TestStoreOrch
    \/ Interrupt

SpecOrchestrator == Init /\ [][NextOrchestrator]_vars

(***************************************************************************)
(* SpecConcurrent: two orchestrator processes (a scheduled run and an      *)
(* ad-hoc one), each inside store_scraping_result with a result that holds *)
(* the same slot.  Each has its own deduplicator and publisher; the dedup  *)
(* cache, the store and the queue are shared.  A step is one call to a     *)
(* backend with the code that follows it up to the next call.              *)
(***************************************************************************)
\* the result of one process: venue 1 with its bookable slot, and whether
\* the dedup cache answers this process
Process(venue, cache_up) ==
    [pc |-> "check",
     result |-> scrape_venue(venue,
                    [kind |-> "result", slots_found |-> <<Page(venue, 0)[2]>>,
                     errors |-> <<>>], 0).result,
     cache_up |-> cache_up,
     client |-> "None", metrics |-> metrics0, pub_client |-> "None",
     new_slots |-> <<>>, is_new_slot |-> FALSE, notifications |-> <<>>,
     published_count |-> 0]

InitConcurrent ==
    /\ client = "None"
    /\ metrics = metrics0
    /\ cache = EmptyMap
    /\ now = 0
    /\ last = [op |-> "init"]
    /\ key_in = <<>>
    /\ key_out = <<>>
    /\ pub_client = "None"
    /\ queue = <<>>
    /\ slots = <<>>
    /\ scraping_logs = <<>>
    /\ pc = "idle"
    /\ venues = <<>>
    /\ idx = 0
    /\ results = <<>>
    /\ sessions = 0
    /\ attempts = <<>>
    /\ stored = <<>>
    /\ system_status = <<>>
    /\ conn = [mongo |-> "none", dedup |-> "none"]
    /\ sched = sched0
    /\ inst \in {<<Process(VenueDocs[1], up1), Process(VenueDocs[1], up2)>> :
                    up1 \in BOOLEAN, up2 \in BOOLEAN}

slot_doc_of(p) == slots_data_of(p.result.slots_found, p.result.platform)[1]

ConcurrentFrame ==
    UNCHANGED <<client, metrics, now, key_in, key_out, pub_client, sessVars,
                system_status, conn, sched>>

\* new_slots, duplicate_slots = self.redis_deduplicator.check_multiple_slots(slots_data)
InstCheck(i) ==
    /\ inst[i].pc = "check"
    /\ \E r \in {check_multiple_slots(
                    [client |-> inst[i].client, metrics |-> inst[i].metrics,
                     cache |-> cache],
                    <<slot_doc_of(inst[i])>>, <<inst[i].cache_up>>, now)} :
          /\ cache' = r.w.cache
          /\ inst' = [inst EXCEPT ![i].client = r.w.client,
                                  ![i].metrics = r.w.metrics,
                                  ![i].new_slots = r.new_slots,
                                  ![i].pc = IF r.new_slots = <<>> THEN "log" ELSE "find"]
          /\ last' = [op |-> "check_multiple_slots", process |-> i, flags |-> r.flags]
    /\ UNCHANGED <<queue, slots, scraping_logs>>
    /\ ConcurrentFrame

\* existing_slot = slots_collection.find_one(filter_query)
InstFind(i) ==
    /\ inst[i].pc = "find"
    /\ inst' = [inst EXCEPT
                   ![i].is_new_slot =
                       is_new_slot_of(find_one(slots, natural_key(inst[i].new_slots[1]))),
                   ![i].pc = "upsert"]
    /\ last' = [op |-> "find_one", process |-> i]
    /\ UNCHANGED <<cache, queue, slots, scraping_logs>>
    /\ ConcurrentFrame

\* slots_collection.replace_one(filter_query, slot_doc, upsert=True), then
\* the notification of a new available slot is added to the batch
InstUpsert(i) ==
    /\ inst[i].pc = "upsert"
    /\ \E d \in {inst[i].new_slots[1]} :
          /\ slots' = replace_one(slots, natural_key(d), d)
          /\ inst' = [inst EXCEPT
                         ![i].notifications =
                             IF notify_condition(inst[i].is_new_slot, d)
                             THEN <<notification_slot(d)>> ELSE <<>>,
                         ![i].pc = IF notify_condition(inst[i].is_new_slot, d)
                                   THEN "publish" ELSE "log"]
    /\ last' = [op |-> "replace_one", process |-> i]
    /\ UNCHANGED <<cache, queue, scraping_logs>>
    /\ ConcurrentFrame

\* connect_to_redis when needed, publish_new_slots(new_slots_for_notification)
InstPublish(i) ==
    /\ inst[i].pc = "publish"
    /\ \E r \in {publish_batch([client |-> inst[i].pub_client, queue |-> queue],
                               inst[i].notifications, <<TRUE>>)} :
          /\ queue' = r.p.queue
          /\ inst' = [inst EXCEPT ![i].pub_client = r.p.client,
                                  ![i].published_count = r.published_count,
                                  ![i].pc = "log"]
    /\ last' = [op |-> "publish_new_slots", process |-> i]
    /\ UNCHANGED <<cache, slots, scraping_logs>>
    /\ ConcurrentFrame

\* logs_collection.insert_one(log_doc)
InstLog(i) ==
    /\ inst[i].pc = "log"
    /\ scraping_logs' = insert_one(scraping_logs, log_doc(inst[i].result, now))
    /\ inst' = [inst EXCEPT ![i].pc = "done"]
    /\ last' = [op |-> "insert_one", process |-> i]
    /\ UNCHANGED <<cache, queue, slots>>
    /\ ConcurrentFrame

NextConcurrent ==
    \E i \in 1..2 :
        InstCheck(i) \/ InstFind(i) \/ InstUpsert(i) \/ InstPublish(i) \/ InstLog(i)

SpecConcurrent == InitConcurrent /\ [][NextConcurrent]_vars

(***************************************************************************)
(* SpecScheduler: ScrapingScheduler.start_scheduler.  An initial session,  *)
(* then the loop: when the clock has reached next_run_time a session is    *)
(* run and awaited, next_run_time is set anew, and the loop sleeps.  Each  *)
(* session has an orchestrator of its own.  The scheduler's clock counts   *)
(* half intervals.  SIGINT or SIGTERM may arrive at any moment.            *)
(***************************************************************************)
\* interval_minutes (30 by default), in units of the scheduler's clock
interval_units == 2

\* calculate_next_run_time(): datetime.now() + timedelta(minutes=interval_minutes)
calculate_next_run_time(t) == t + interval_units

\* a venue document without scraper_config
MalformedVenue == [_id |-> "507f1f77bcf86cd799439014", name |-> "hackney downs"]

\* what db.venues may hold when a session loads it
VenueCollections == { <<VenueDocs[1]>>, <<VenueDocs[1], MalformedVenue>> }

\* load_venues(venue_names) over a given venues collection
load_venues_of(collection, venue_names, mongo_up) ==
    IF ~mongo_up THEN <<>>
    ELSE IF venue_names = <<>> THEN collection
    ELSE SelectSeq(collection, LAMBDA v : \E i \in 1..Len(venue_names) : venue_names[i] = v.name)

\* the scheduler, were it to go on without waiting for the session's end
awaited_never(session_pc) == TRUE

\* results = await orchestrator.run_scraping_session(): the scheduler goes on
\* when the session has returned or raised
awaited(session_pc) == session_pc \in {"idle", "raised"}

\* ScrapingScheduler.run_scraping_session up to the first await of the
\* session: orchestrator = ScraperOrchestrator(), connect_mongodb, load_venues
BeginScheduledSession ==
    /\ client' = "None"
    /\ metrics' = metrics0
    /\ pub_client' = "None"
    /\ conn' = [mongo |-> "open", dedup |-> "none"]
    /\ sessions' = sessions + 1
    /\ \E collection \in VenueCollections :
          venues' = load_venues_of(collection, <<>>, TRUE)
    /\ results' = <<>>
    /\ attempts' = <<>>
    /\ stored' = <<>>
    /\ idx' = 1
    /\ pc' = IF venues' = <<>> THEN "finish" ELSE "scrape"
    /\ last' = [op |-> "start_session", venue_names |-> <<>>, mongo_up |-> TRUE]
    /\ UNCHANGED <<cache, now, keyVars, queue, slots, scraping_logs, system_status, inst>>

\* start_scheduler: running = True, then the initial session
StartScheduler ==
    /\ sched.pc = "off"
    /\ sched' = [sched EXCEPT !.pc = "initial", !.running = TRUE, !.started = @ + 1]
    /\ BeginScheduledSession

\* scrape_venue on a document without scraper_config: KeyError at
\* venue_config['scraper_config'] and again in the except branch of the
\* venue loop (platform=venue['scraper_config']['type']); it leaves
\* scrape_all_venues, run_scraping_session logs and re-raises it, its
\* finally closes the connections
ScrapeMalformed ==
    /\ pc = "scrape"
    /\ "scraper_config" \notin DOMAIN venues[idx]
    /\ pc' = "raised"
    /\ conn' = finally_close(conn, client)
    /\ last' = [op |-> "run_scraping_session", exit |-> "Exception", at |-> pc,
                venue |-> <<venues[idx]._id>>]
    /\ UNCHANGED <<dedupVars, now, keyVars, pipeVars, venues, idx, results, sessions,
                   attempts, stored, restVars>>

\* the scheduler resumes after the awaited session.  Initial session: an
\* exception is logged and dropped, next_run_time is set.  In the loop: after
\* a return next_run_time is set anew and the loop sleeps 30 s; an exception
\* goes to the loop's except, which sleeps 60 s and leaves next_run_time.
SessionReturned ==
    /\ sched.pc \in {"initial", "session"}
    /\ awaited(pc)
    /\ sched' = [sched EXCEPT
                    !.finished = @ + 1,
                    !.next_run_time =
                        IF sched.pc = "initial" \/ pc # "raised"
                        THEN <<calculate_next_run_time(sched.time)>> ELSE @,
                    !.pc = IF sched.pc = "initial" THEN "loop"
                           ELSE IF pc = "raised" THEN "sleep60" ELSE "sleep30"]
    /\ pc' = IF pc = "raised" THEN "idle" ELSE pc
    /\ last' = [op |-> "session_awaited", raised |-> pc = "raised"]
    /\ UNCHANGED <<dedupVars, now, keyVars, pipeVars, venues, idx, results, sessions,
                   attempts, stored, system_status, conn, inst>>

\* while self.running: if current_time >= self.next_run_time: await
\* self.run_scraping_session() ... ; else straight to the sleep
LoopCheck ==
    /\ sched.pc = "loop"
    /\ IF ~sched.running
       THEN /\ sched' = [sched EXCEPT !.pc = "returned"]
            /\ last' = [op |-> "start_scheduler", exit |-> "return"]
            /\ UNCHANGED <<dedupVars, now, keyVars, pipeVars, sessVars, system_status,
                           conn, inst>>
       ELSE IF sched.time >= sched.next_run_time[1]
       THEN /\ sched.started < MaxScheduled
            /\ sched' = [sched EXCEPT !.pc = "session", !.started = @ + 1]
            /\ BeginScheduledSession
       ELSE /\ sched' = [sched EXCEPT !.pc = "sleep30"]
            /\ last' = [op |-> "not_due"]
            /\ UNCHANGED <<dedupVars, now, keyVars, pipeVars, sessVars, system_status,
                           conn, inst>>

\* await asyncio.sleep(30) or asyncio.sleep(60) is over
Wake ==
    /\ sched.pc \in {"sleep30", "sleep60"}
    /\ sched' = [sched EXCEPT !.pc = "loop"]
    /\ last' = [op |-> "wake"]
    /\ UNCHANGED <<dedupVars, now, keyVars, pipeVars, sessVars, system_status, conn, inst>>

\* the scheduler's clock advances, whatever the scheduler is doing
Elapse ==
    /\ sched.pc \notin {"off", "exited", "returned"}
    /\ sched.time < MaxTime
    /\ sched' = [sched EXCEPT !.time = @ + 1]
    /\ UNCHANGED <<dedupVars, now, last, keyVars, pipeVars, sessVars, system_status,
                   conn, inst>>

\* signal_handler(signum, frame): scheduler.stop_scheduler(); sys.exit(0).
\* SystemExit is raised in the main thread wherever it stands: in a session
\* it ends the running step as in Interrupt, and the process exits.
Signal ==
    /\ sched.pc \notin {"off", "exited", "returned"}
    /\ sched' = [sched EXCEPT !.running = FALSE, !.pc = "exited"]
    /\ \/ /\ pc \in {"scrape", "store", "finish"}
          /\ InterruptCore
       \/ /\ pc \in {"idle", "raised"}
          /\ pc' = "idle"
          /\ last' = [op |-> "signal", exit |-> "BaseException", at |-> pc,
                      venue |-> <<>>]
          /\ UNCHANGED <<dedupVars, now, keyVars, pipeVars, venues, idx, results,
                         sessions, attempts, stored, system_status, conn, inst>>

ScrapeVenueSched ==
    ScrapeVenueWith("revisit")

NextScheduler ==
    \/ StartScheduler \/ LoopCheck \/ SessionReturned \/ Wake \/ Elapse \/ Signal
    \/ ScrapeVenueSched \/ StoreResultAll \/ FinishSession \/ ScrapeMalformed

SpecScheduler == Init /\ [][NextScheduler]_vars

(***************************************************************************)
(* SpecActive: sessions over a venues collection whose documents carry the *)
(* is_active flag, one venue active and one deactivated.                   *)
(***************************************************************************)
\* a venue document as the seed scripts write it, with its is_active flag
flagged(venue, is_active) ==
    [_id |-> venue._id, name |-> venue.name, scraper_config |-> venue.scraper_config,
     is_active |-> is_active]

\* db.venues: victoria park active, stratford park deactivated
FlaggedVenues == << flagged(VenueDocs[1], TRUE), flagged(VenueDocs[3], FALSE) >>

\* run_scraping_session up to the first await, over the flagged collection
StartSessionActive ==
    /\ pc = "idle"
    /\ sessions < MaxRuns
    /\ \E venue_names \in {<<>>, <<"victoria park">>, <<"stratford park">>} :
        /\ sessions' = sessions + 1
        /\ venues' = load_venues_of(FlaggedVenues, venue_names, TRUE)
        /\ results' = <<>>
        /\ attempts' = <<>>
        /\ stored' = <<>>
        /\ idx' = 1
        /\ pc' = IF venues' = <<>> THEN "finish" ELSE "scrape"
        /\ last' = [op |-> "start_session", venue_names |-> venue_names, mongo_up |-> TRUE]
        /\ conn' = [conn EXCEPT !.mongo = "open"]
        /\ UNCHANGED <<dedupVars, now, keyVars, pipeVars, restVars>>

ScrapeVenueActive ==
    ScrapeVenueWith("revisit")

NextActive ==
    StartSessionActive \/ ScrapeVenueActive \/ StoreResultAll \/ FinishSession \/ Tick

SpecActive == Init /\ [][NextActive]_vars

(***************************************************************************)
(* SpecMetrics: get_metrics over counter values.  A rate is kept as the    *)
(* exact quotient [num, den]; Python's true division and a decimal literal *)
(* both round the exact value to the nearest double, so a computed rate    *)
(* equals the literal n/d exactly when num * d = n * den.                  *)
(***************************************************************************)
MaxCount == 3

\* a / b of two ints
true_divide(a, b) == [num |-> a, den |-> b]

\* the float literal 0.0
zero_rate == [num |-> 0, den |-> 1]

\* the counters with the three rates added
with_rates(m, duplicate_rate, new_slot_rate, error_rate) ==
    [total_checks |-> m.total_checks, duplicates_found |-> m.duplicates_found,
     new_slots |-> m.new_slots, redis_errors |-> m.redis_errors,
     connection_failures |-> m.connection_failures,
     duplicate_rate |-> duplicate_rate, new_slot_rate |-> new_slot_rate,
     error_rate |-> error_rate]

\* get_metrics without the total_checks > 0 test: ZeroDivisionError when no
\* check has been made
get_metrics_unguarded(m) ==
    IF m.total_checks = 0
    THEN [raised |-> TRUE, value |-> <<>>]
    ELSE [raised |-> FALSE,
          value |-> <<with_rates(m, true_divide(m.duplicates_found, m.total_checks),
                                 true_divide(m.new_slots, m.total_checks),
                                 true_divide(m.redis_errors, m.total_checks))>>]

\* get_metrics(): [raised, value]
get_metrics(m) ==
    LET total_checks == m.total_checks
    IN  IF total_checks > 0
        THEN [raised |-> FALSE,
              value |-> <<with_rates(m, true_divide(m.duplicates_found, total_checks),
                                     true_divide(m.new_slots, total_checks),
                                     true_divide(m.redis_errors, total_checks))>>]
        ELSE [raised |-> FALSE, value |-> <<with_rates(m, zero_rate, zero_rate, zero_rate)>>]

\* Counter values the deduplicator can hold: every check counts once in
\* total_checks and once as a duplicate, a new slot, a Redis error or a
\* failed connection; two runs of a hundred checks besides the small ones.
MetricsSamples ==
    { [total_checks |-> d + n + e + f, duplicates_found |-> d, new_slots |-> n,
       redis_errors |-> e, connection_failures |-> f] :
          d \in 0..MaxCount, n \in 0..MaxCount, e \in 0..MaxCount, f \in 0..1 }
    \cup { [total_checks |-> 100, duplicates_found |-> 30, new_slots |-> 70,
            redis_errors |-> 0, connection_failures |-> 0],
           [total_checks |-> 100, duplicates_found |-> 30, new_slots |-> 65,
            redis_errors |-> 5, connection_failures |-> 2] }

InitMetrics ==
    /\ client = "None"
    /\ metrics \in MetricsSamples
    /\ cache = EmptyMap
    /\ now = 0
    /\ last = [op |-> "init"]
    /\ key_in = <<>>
    /\ key_out = <<>>
    /\ PipelineInit

GetMetrics ==
    /\ last' = [op |-> "get_metrics", raised |-> get_metrics(metrics).raised,
                value |-> get_metrics(metrics).value]
    /\ UNCHANGED <<dedupVars, now, keyVars, pipeVars, sessVars, conn, restVars>>

NextMetrics == GetMetrics \/ ResetMetrics

SpecMetrics == InitMetrics /\ [][NextMetrics]_vars

(***************************************************************************)
(* SpecPublish: one venue's result with up to three new, priced, bookable  *)
(* slots in any order, the queue answering or failing push by push; a      *)
(* direct publish_new_slots call with a message that lacks a field; and    *)
(* the consumer of the queue.                                              *)
(***************************************************************************)
MaxPublishes == 1

\* a booking page with three bookable, priced courts
OpenPage(venue, t) ==
    << ScrapedSlot(venue, "1", <<8>>, TRUE, t), ScrapedSlot(venue, "2", <<9>>, TRUE, t),
       ScrapedSlot(venue, "3", <<10>>, TRUE, t) >>

\* the lists of distinct entries of a list, in any order
Arrangements(list) ==
    { [i \in 1..Len(order) |-> list[order[i]]] :
        order \in { o \in UNION { [1..n -> 1..Len(list)] : n \in 1..Len(list) } :
                      \A i, j \in 1..Len(o) : o[i] = o[j] => i = j } }

\* what the queue does at each push of a batch
PushPatterns == [1..Len(OpenPage(VenueDocs[1], 0)) -> BOOLEAN]

\* a notification dictionary without its bookingUrl
without_booking_url(n) == [k \in DOMAIN n \ {"bookingUrl"} |-> n[k]]

\* batches handed to publish_new_slots directly: one message of three with a
\* required field missing
DirectBatches ==
    LET n(i) == notification_slot(slot_doc(OpenPage(VenueDocs[1], 0)[i], "courtside"))
    IN  { <<n(1), without_booking_url(n(2)), n(3)>>,
          <<without_booking_url(n(1)), n(2)>>,
          <<n(3), n(1), without_booking_url(n(2))>> }

\* the consumer's pop: BRPOP takes the element at the tail of the list, the
\* oldest one pushed with LPUSH
brpop(q) == [q |-> SubSeq(q, 1, Len(q) - 1), message |-> q[Len(q)]]

\* a message left on the queue by an earlier session
OlderMessage ==
    json_dumps(notification_slot(slot_doc(ScrapedSlot(VenueDocs[3], "1", <<7>>, TRUE, 0),
                                          "clubspark")))

InitPublish ==
    /\ client = "None"
    /\ metrics = metrics0
    /\ cache = EmptyMap
    /\ now = 0
    /\ last = [op |-> "init"]
    /\ key_in = <<>>
    /\ key_out = <<>>
    /\ pub_client = "None"
    /\ queue \in {<<>>, <<OlderMessage>>}
    /\ slots = <<>>
    /\ scraping_logs = <<>>
    /\ pc = "idle"
    /\ venues = <<>>
    /\ idx = 0
    /\ results = <<>>
    /\ sessions = 0
    /\ attempts = <<>>
    /\ stored = <<>>
    /\ system_status = <<>>
    /\ conn = [mongo |-> "none", dedup |-> "none"]
    /\ sched = sched0
    /\ inst = inst0

\* store_scraping_result for a result of the open page
StoreOpenPage ==
    /\ sessions < MaxPublishes
    /\ sessions' = sessions + 1
    /\ \E slots_found \in Arrangements(OpenPage(VenueDocs[1], now)),
          qups \in PushPatterns :
       \E result \in {scrape_venue(VenueDocs[1],
                                   [kind |-> "result", slots_found |-> slots_found,
                                    errors |-> <<>>], now).result} :
       \E r \in {store_scraping_result(Globals, result,
                                       [NoFault EXCEPT !.qups = qups], now)} :
           /\ client' = r.g.w.client
           /\ metrics' = r.g.w.metrics
           /\ cache' = r.g.w.cache
           /\ pub_client' = r.g.pub.client
           /\ queue' = r.g.pub.queue
           /\ slots' = r.g.slots
           /\ scraping_logs' = r.g.scraping_logs
           /\ last' = [op |-> "store_scraping_result", result |-> result,
                       f |-> [NoFault EXCEPT !.qups = qups],
                       before |-> Globals, trace |-> r.trace,
                       dup_trace |-> r.dup_trace, flags |-> r.flags,
                       notifications |-> r.notifications,
                       published_count |-> r.published_count,
                       raised |-> r.raised, logged |-> r.logged]
    /\ UNCHANGED <<now, keyVars, pc, venues, idx, results, attempts, stored, conn,
                   restVars>>

\* publish_new_slots(new_slots) called directly
PublishDirect ==
    /\ sessions < MaxPublishes
    /\ sessions' = sessions + 1
    /\ \E new_slots \in DirectBatches, qups \in PushPatterns :
       \E r \in {publish_new_slots([client |-> pub_client, queue |-> queue],
                                   new_slots, qups)} :
           /\ pub_client' = r.p.client
           /\ queue' = r.p.queue
           /\ last' = [op |-> "publish_new_slots", new_slots |-> new_slots,
                       qups |-> qups, published_count |-> r.published_count,
                       before |-> Globals]
    /\ UNCHANGED <<dedupVars, now, keyVars, slots, scraping_logs, pc, venues, idx,
                   results, attempts, stored, conn, restVars>>

\* the downstream consumer takes one message
Pop ==
    /\ queue # <<>>
    /\ queue' = brpop(queue).q
    /\ last' = [op |-> "brpop", message |-> brpop(queue).message, queue |-> queue]
    /\ UNCHANGED <<dedupVars, now, keyVars, pub_client, slots, scraping_logs, sessVars,
                   conn, restVars>>

NextPublish == StoreOpenPage \/ PublishDirect \/ Pop

SpecPublish == InitPublish /\ [][NextPublish]_vars

(***************************************************************************)
(* SpecMarker: sessions over one venue while time passes; a session        *)
(* returns, with the status update answered or failing, or is ended by an  *)
(* exception that leaves run_scraping_session.                             *)
(***************************************************************************)
NextMarker ==
    \/ StartSessionRevisit \/ ScrapeVenueRevisit \/ StoreResultAll \/ FinishSessionOrch
    \/ Interrupt \/ Tick

SpecMarker == Init /\ [][NextMarker]_vars

(***************************************************************************)
(* SpecDates: the target dates of a venue scrape.  A date is [y, m, d];    *)
(* the environment variable is <<>> when unset, else <<its text>>; an      *)
(* optional argument is <<>> for None, else <<value>>.                     *)
(***************************************************************************)
default_days_ahead == "7"

\* int(text) for a decimal numeral
RECURSIVE int(_)
int(text) ==
    IF text = "" THEN 0
    ELSE int(SubSeq(text, 1, Len(text) - 1)) * 10 + (ord(SubSeq(text, Len(text), Len(text))) - 1)

\* os.getenv(name, default)
getenv(env, default) == IF env = <<>> THEN default ELSE env[1]

days_in_month(y, m) ==
    IF m = 2
    THEN (IF (y % 4 = 0 /\ y % 100 # 0) \/ y % 400 = 0 THEN 29 ELSE 28)
    ELSE IF m \in {4, 6, 9, 11} THEN 30 ELSE 31

\* date + timedelta(days=i)
RECURSIVE add_days(_, _)
add_days(date, i) ==
    IF i = 0 THEN date
    ELSE IF date.d < days_in_month(date.y, date.m)
    THEN add_days([date EXCEPT !.d = @ + 1], i - 1)
    ELSE IF date.m < 12
    THEN add_days([date EXCEPT !.m = @ + 1, !.d = 1], i - 1)
    ELSE add_days([y |-> date.y + 1, m |-> 1, d |-> 1], i - 1)

\* the decimal numeral of n, zero-padded to width digits
RECURSIVE numeral(_, _)
numeral(n, width) ==
    IF width = 0 THEN ""
    ELSE numeral(n \div 10, width - 1) \o SubSeq(Alphabet, (n % 10) + 1, (n % 10) + 1)

\* date.strftime("%Y-%m-%d")
date_strftime(date) ==
    numeral(date.y, 4) \o "-" \o numeral(date.m, 2) \o "-" \o numeral(date.d, 2)

\* get_target_dates with the window starting the day after today
get_target_dates_from_tomorrow(today, days_ahead) ==
    [i \in 1..days_ahead |-> date_strftime(add_days(today, i))]

\* BaseScraper.get_target_dates(days_ahead): for i in range(days_ahead)
get_target_dates(today, days_ahead) ==
    [i \in 1..days_ahead |-> date_strftime(add_days(today, i - 1))]

\* scrape_venue: the dates handed to scraper.scrape_availability; "if not
\* target_dates" holds for None and for an empty list
scrape_venue_dates(target_dates, env, today) ==
    IF target_dates = <<>> \/ target_dates[1] = <<>>
    THEN get_target_dates(today, int(getenv(env, default_days_ahead)))
    ELSE target_dates[1]

\* test_single_venue(venue_name, days_ahead): the dates its scrape_venue call
\* hands to the scraper
test_single_venue_dates(days_ahead, env, today) ==
    LET n == IF days_ahead = <<>> THEN int(getenv(env, default_days_ahead))
             ELSE days_ahead[1]
    IN  scrape_venue_dates(<<get_target_dates(today, n)>>, env, today)

\* days on which a scrape may run: around the end of February in a leap
\* year and in a common year, the end of a 30-day month, the end of the
\* year, and mid-month
Todays ==
    { [y |-> 2024, m |-> 2, d |-> 27], [y |-> 2025, m |-> 2, d |-> 26],
      [y |-> 2025, m |-> 4, d |-> 28], [y |-> 2025, m |-> 12, d |-> 29],
      [y |-> 2025, m |-> 6, d |-> 10] }

\* SCRAPER_DAYS_AHEAD: unset, or a numeral
Environments == { <<>>, <<"1">>, <<"3">>, <<"8">>, <<"10">> }

\* the target_dates argument: None, an empty list, explicit dates
DateArguments ==
    { <<>>, << <<>> >>, << <<"2025-06-10">> >>, << <<"2025-07-01", "2025-06-10">> >> }

\* scrape_venue(venue_config, target_dates) up to the scraper call
ResolveDates ==
    /\ \E target_dates \in DateArguments, env \in Environments, today \in Todays :
          last' = [op |-> "scrape_venue", target_dates |-> target_dates, env |-> env,
                   today |-> today,
                   dates |-> scrape_venue_dates(target_dates, env, today)]
    /\ UNCHANGED <<dedupVars, now, keyVars, pipeVars, sessVars, conn, restVars>>

\* test_single_venue(venue_name, days_ahead) up to the scraper call
ResolveTestDates ==
    /\ \E days_ahead \in {<<>>, <<2>>}, env \in Environments, today \in Todays :
          last' = [op |-> "test_single_venue", days_ahead |-> days_ahead, env |-> env,
                   today |-> today,
                   dates |-> test_single_venue_dates(days_ahead, env, today)]
    /\ UNCHANGED <<dedupVars, now, keyVars, pipeVars, sessVars, conn, restVars>>

NextDates == ResolveDates \/ ResolveTestDates

SpecDates == Init /\ [][NextDates]_vars

(***************************************************************************)
(* SpecBatch: check_multiple_slots on lists of slots, the backend up or    *)
(* down at each check.                                                     *)
(***************************************************************************)
\* the lists of at most n slots
SlotLists(n) == UNION { [1..k -> DedupSlots] : k \in 0..n }

CheckBatch ==
    /\ \E slots_data \in SlotLists(MaxBatch + 1) :
          /\ metrics.total_checks + Len(slots_data) <= MaxChecks
          /\ \E ups \in [1..Len(slots_data) -> BOOLEAN] :
             \E r \in {check_multiple_slots(World, slots_data, ups, now)} :
                 /\ client' = r.w.client
                 /\ metrics' = r.w.metrics
                 /\ cache' = r.w.cache
                 /\ last' = [op |-> "check_multiple_slots", slots_data |-> slots_data,
                             ups |-> ups, new_slots |-> r.new_slots,
                             duplicate_slots |-> r.duplicate_slots, before |-> World]
    /\ conn' = [conn EXCEPT !.dedup = "open"]
    /\ UNCHANGED <<now, keyVars, pipeVars, sessVars, restVars>>

NextBatch == CheckBatch

SpecBatch == Init /\ [][NextBatch]_vars

(***************************************************************************)
(* Properties of key generation (checked under SpecKey).                   *)
(***************************************************************************)
HashPrefix == "dedupe:slot:hash:"
LiteralPrefix == "dedupe:slot:"

key_suffix_of(slot_data) == join(":", slot_tuple(slot_data))

IsHex(s) ==
    \A k \in 1..Len(s) : \E j \in 1..Len(HexDigits) :
        SubSeq(HexDigits, j, j) = SubSeq(s, k, k)

IsHashedKey(k) ==
    /\ startswith(k, HashPrefix)
    /\ Len(k) = Len(HashPrefix) + DigestLength
    /\ IsHex(SubSeq(k, Len(HashPrefix) + 1, Len(k)))

KeyShape(i) ==
    LET suffix == key_suffix_of(key_in[i])
    IN  /\ Len(suffix) > KeyLengthLimit => IsHashedKey(key_out[i])
        /\ Len(suffix) <= KeyLengthLimit => key_out[i] = LiteralPrefix \o suffix

\* C7: generate_slot_key depends only on (venue_id, date, start_time,
\* court_id): two slots with equal tuples get the same key, whatever their
\* price, availability, court name and end time are.
C7_KeyDependsOnlyOnTuple ==
    key_out # <<>> =>
        (slot_tuple(key_in[1]) = slot_tuple(key_in[2]) => key_out[1] = key_out[2])

C7_Witness ==
    /\ key_out # <<>>
    /\ slot_tuple(key_in[1]) = slot_tuple(key_in[2])
    /\ key_in[1].price # key_in[2].price
    /\ key_in[1].available # key_in[2].available
    /\ key_in[1].court_name # key_in[2].court_name
    /\ key_in[1].end_time # key_in[2].end_time
    /\ Len(key_suffix_of(key_in[1])) > KeyLengthLimit
    /\ key_out[1] = key_out[2]

C1_CheckAndMark ==
    (last.op = "is_duplicate_slot" /\ last.up) =>
        LET k == generate_slot_key(last.slot)
            before == last.before.cache
        IN  /\ last.redis_key = k
            /\ k \notin DOMAIN before =>
                  /\ ~last.is_duplicate
                  /\ DOMAIN cache = DOMAIN before \cup {k}
                  /\ cache[k] = [value |-> now, ttl |-> expiry_seconds]
                  /\ \A x \in DOMAIN before : cache[x] = before[x]
            /\ k \in DOMAIN before =>
                  /\ last.is_duplicate
                  /\ cache = before

\* a duplicate is reported for a key written earlier, whose time to live
\* has since gone down and whose value is an earlier timestamp
C1_Witness ==
    /\ last.op = "is_duplicate_slot" /\ last.up
    /\ last.is_duplicate
    /\ last.redis_key \in DOMAIN cache
    /\ cache[last.redis_key].ttl < expiry_seconds
    /\ cache[last.redis_key].value < now
    /\ cache = last.before.cache

\* C4 as stated: every check made while the backend is unreachable, the
\* first use (no client yet) or a check after an earlier failed connection
\* attempt, returns is_duplicate = false and increments the
\* connection-failure counter.
C4_FailOpenCountsConnectionFailure ==
    (last.op = "is_duplicate_slot" /\ ~last.up) =>
        /\ ~last.is_duplicate
        /\ metrics.connection_failures = last.before.metrics.connection_failures + 1

(***************************************************************************)
(* Properties of store_scraping_result over sessions (checked under Spec). *)
(***************************************************************************)
IsStore == last.op = "store_scraping_result"

\* the slot documents of the result handed to the last store_scraping_result
docs == slots_data_of(last.result.slots_found, last.result.platform)

\* the slot tuple a queued message is about
message_tuple(m) == <<m[2].venueId, m[2].date, m[2].startTime, m[2].courtId>>

MessagesFor(q, tup) == {i \in 1..Len(q) : message_tuple(q[i]) = tup}

RecordsFor(coll, d) == {i \in 1..Len(coll) : natural_key(coll[i]) = natural_key(d)}

\* the slots of a batch that the dedup check did not flag, in batch order
RECURSIVE NonDuplicates(_, _)
NonDuplicates(batch, flags) ==
    IF batch = <<>> THEN <<>>
    ELSE (IF Head(flags) THEN <<>> ELSE <<Head(batch)>>)
             \o NonDuplicates(Tail(batch), Tail(flags))

\* position in the store loop's trace of the k-th slot of the batch
trace_index(flags, k) == Cardinality({j \in 1..k : ~flags[j]})

\* C2: whatever the sessions, outages, evictions and restarts, no two
\* messages on the queue are about the same slot tuple (so at most one per
\* TTL window); and a slot with no record and no cache key, submitted alone
\* with all backends up, leaves exactly one message for its tuple.
C2_AtMostOneNotification ==
    /\ \A i, j \in 1..Len(queue) :
          message_tuple(queue[i]) = message_tuple(queue[j]) => i = j
    /\ (/\ IsStore
        /\ last.f = NoFault
        /\ Len(last.result.slots_found) = 1
        /\ docs[1].available
        /\ docs[1].price # <<>>
        /\ RecordsFor(last.before.slots, docs[1]) = {}
        /\ generate_slot_key(docs[1]) \notin DOMAIN last.before.w.cache)
          => Cardinality(MessagesFor(queue, slot_tuple(docs[1]))) = 1

\* a slot notified less than a TTL ago comes in again while the cache has no
\* key for it (outage, eviction or restart): it reaches the store loop, is
\* found there, and the queue still holds one message for it
C2_Witness ==
    /\ IsStore
    /\ \E i \in 1..Len(last.trace) :
        LET d == last.trace[i].doc
        IN  /\ d.available
            /\ d.price # <<>>
            /\ last.trace[i].existed
            /\ ~last.trace[i].notified
            /\ \E k \in 1..Len(last.before.pub.queue) :
                  /\ message_tuple(last.before.pub.queue[k]) = slot_tuple(d)
                  /\ (now - last.before.pub.queue[k][2].scrapedAt[2]) * TickSeconds
                         < expiry_seconds
            /\ Cardinality(MessagesFor(queue, slot_tuple(d))) = 1

\* the first slot of the batch is available and priced, its tuple was
\* notified at least a TTL ago, the cache holds no key for it any more, and
\* all backends are up
C3_Resubmitted ==
    /\ IsStore
    /\ last.f = NoFault
    /\ last.result.slots_found # <<>>
    /\ docs[1].available
    /\ docs[1].price # <<>>
    /\ generate_slot_key(docs[1]) \notin DOMAIN last.before.w.cache
    /\ \E k \in 1..Len(last.before.pub.queue) :
          /\ message_tuple(last.before.pub.queue[k]) = slot_tuple(docs[1])
          /\ (now - last.before.pub.queue[k][2].scrapedAt[2]) * TickSeconds
                 >= expiry_seconds

C6_OneRecordPerNaturalKey ==
    /\ \A i, j \in 1..Len(slots) :
          natural_key(slots[i]) = natural_key(slots[j]) => i = j
    /\ IsStore =>
        /\ Len(slots) >= Len(last.before.slots)
        /\ \A i \in 1..Len(last.before.slots) :
              natural_key(slots[i]) = natural_key(last.before.slots[i])
        /\ \A i \in 1..Len(last.trace) :
              (/\ last.trace[i].upserted
               /\ \A j \in (i + 1)..Len(last.trace) :
                     last.trace[j].upserted
                        => natural_key(last.trace[j].doc) # natural_key(last.trace[i].doc))
                 => find_one(slots, natural_key(last.trace[i].doc)) = <<last.trace[i].doc>>

\* a record is replaced by a document with the same natural key and another
\* price: one record, with the new price
C6_Witness ==
    /\ IsStore
    /\ \E i \in 1..Len(last.trace) :
        LET d == last.trace[i].doc
            old == find_one(last.before.slots, natural_key(d))
        IN  /\ last.trace[i].upserted
            /\ old # <<>>
            /\ old[1].price # d.price
            /\ Cardinality(RecordsFor(slots, d)) = 1
            /\ find_one(slots, natural_key(d))[1].price = d.price

\* C9 as stated, for a call during which every backend answers: a
\* notification is added to the batch for a slot if and only if the dedup
\* check reported it non-duplicate, no record with its natural key existed
\* at lookup time, and its available flag is true.
C9_NotifiedIff ==
    (IsStore /\ last.f = NoFault) =>
        \A k \in 1..Len(docs) :
            LET e == last.trace[trace_index(last.flags, k)]
            IN  (~last.flags[k] /\ e.notified)
                    <=> (~last.flags[k] /\ ~e.existed /\ docs[k].available)

\* C10: the store loop of store_scraping_result runs over exactly the slots
\* the dedup check did not flag, in order; a flagged slot whose natural key
\* no unflagged slot of the batch shares leaves its record and its messages
\* as they were; a batch of flagged slots only leaves the slots collection
\* and the queue unchanged.
C10_DuplicatesDropped ==
    IsStore =>
        /\ Len(last.flags) = Len(docs)
        /\ [i \in 1..Len(last.trace) |-> last.trace[i].doc]
              = NonDuplicates(docs, last.flags)
        /\ \A k \in 1..Len(docs) :
              (/\ last.flags[k]
               /\ \A j \in 1..Len(docs) :
                     ~last.flags[j] => natural_key(docs[j]) # natural_key(docs[k]))
                 => /\ find_one(slots, natural_key(docs[k]))
                          = find_one(last.before.slots, natural_key(docs[k]))
                    /\ Cardinality(MessagesFor(queue, slot_tuple(docs[k])))
                          = Cardinality(MessagesFor(last.before.pub.queue,
                                                    slot_tuple(docs[k])))
        /\ (\A k \in 1..Len(docs) : last.flags[k])
              => /\ slots = last.before.slots
                 /\ queue = last.before.pub.queue
                 /\ last.notifications = <<>>

\* a batch with a flagged slot whose record stays as it was, and an
\* unflagged slot that is upserted and notified
C10_Witness ==
    /\ IsStore
    /\ Len(docs) = 2
    /\ last.flags[1]
    /\ ~last.flags[2]
    /\ natural_key(docs[1]) # natural_key(docs[2])
    /\ Len(last.trace) = 1
    /\ last.trace[1].upserted
    /\ last.trace[1].notified
    /\ Len(queue) = Len(last.before.pub.queue) + 1
    /\ find_one(slots, natural_key(docs[1])) # <<>>
    /\ find_one(slots, natural_key(docs[1]))[1].scraped_at < docs[1].scraped_at

(***************************************************************************)
(* Properties of the venue loop (checked under SpecSession).               *)
(***************************************************************************)
endswith(s, p) == Len(p) <= Len(s) /\ SubSeq(s, Len(s) - Len(p) + 1, Len(s)) = p

\* C5: the results list holds one result per venue scraped so far, in venue
\* order, and one per loaded venue when the loop is over; a venue whose
\* scraper raised, or whose platform has no scraper, has a result with
\* success = false and the error text; every result, failed or not, is
\* handed to store_scraping_result before the next venue is scraped.
C5_OneResultPerVenue ==
    /\ Len(results) = Len(attempts)
    /\ Len(results) <= Len(venues)
    /\ pc \in {"finish", "idle"} => Len(results) = Len(venues)
    /\ stored = (IF pc = "store" THEN SubSeq(results, 1, Len(results) - 1) ELSE results)
    /\ \A i \in 1..Len(results) :
        /\ results[i].venue_id = venues[i]._id
        /\ attempts[i].venue_id = venues[i]._id
        /\ attempts[i].kind = "raise" =>
              /\ ~results[i].success
              /\ Len(results[i].errors) = 1
              /\ endswith(results[i].errors[1], attempts[i].text)
        /\ attempts[i].kind = "no_scraper" =>
              /\ ~results[i].success
              /\ Len(results[i].errors) = 1
              /\ endswith(results[i].errors[1], venues[i].scraper_config.type)
    /\ last.op = "run_scraping_session" => last.results = results

\* three venues: the first scraper raises, the second venue has no scraper,
\* the third is scraped and its slot stored
C5_Witness ==
    /\ last.op = "run_scraping_session"
    /\ Len(venues) = 3
    /\ attempts[1].kind = "raise"
    /\ attempts[2].kind = "no_scraper"
    /\ attempts[3].kind = "scraped"
    /\ results[3].success
    /\ results[3].slots_found # <<>>
    /\ stored = results
    /\ Len(scraping_logs) >= 3

(***************************************************************************)
(* Failure handling of store_scraping_result (checked under Spec).         *)
(***************************************************************************)
\* C11 as stated, for calls whose log insert itself succeeds: every
\* store_scraping_result call appends exactly one attempt-log entry with the
\* result's slot count, duration, errors and success flag, also when a
\* lookup or upsert fails or building a notification fails; earlier entries
\* are left as they were.
C11_LogAlwaysAppended ==
    (IsStore /\ last.f.log_ok) =>
        scraping_logs = Append(last.before.scraping_logs, log_doc(last.result, now))

\* some notification of the batch was not pushed, and nothing else failed
PublishFailed ==
    /\ IsStore
    /\ last.notifications # <<>>
    /\ last.published_count < Len(last.notifications)
    /\ last.f.log_ok

\* C12: when the push of a venue's notification batch fails, the records
\* upserted for that venue are in the store as upserted, the messages that
\* could not be pushed are not on the queue, the call ends normally (the
\* attempt log is appended, the outer except is not reached) and the venue
\* loop goes on.
C12_PublishFailureIsolated ==
    PublishFailed =>
        /\ \A i \in 1..Len(last.trace) :
              (/\ last.trace[i].upserted
               /\ \A j \in (i + 1)..Len(last.trace) :
                     natural_key(last.trace[j].doc) # natural_key(last.trace[i].doc))
                 => find_one(slots, natural_key(last.trace[i].doc)) = <<last.trace[i].doc>>
        /\ Len(queue) = Len(last.before.pub.queue) + last.published_count
        /\ ~last.raised
        /\ last.logged
        /\ scraping_logs = Append(last.before.scraping_logs, log_doc(last.result, now))
        /\ pc \in {"scrape", "finish"}
        /\ stored = results

\* the queue is down for a batch with one notification: the record is
\* stored, nothing is queued, the log is written
C12_Witness ==
    /\ PublishFailed
    /\ last.published_count = 0
    /\ Len(last.notifications) = 1
    /\ last.trace[Len(last.trace)].notified
    /\ RecordsFor(slots, last.trace[Len(last.trace)].doc) # {}
    /\ RecordsFor(last.before.slots, last.trace[Len(last.trace)].doc) = {}
    /\ queue = last.before.pub.queue
    /\ last.logged

\* C14 as stated: a slot that passed the dedup check while its persistence
\* failed (its key is in the cache, no record of it is in the store) is, the
\* next time it is observed with all backends up, not dropped as a
\* duplicate, and is persisted.
C14_NotDroppedAfterFailedPersistence ==
    (/\ IsStore
     /\ last.f = NoFault
     /\ last.result.slots_found # <<>>
     /\ generate_slot_key(docs[1]) \in DOMAIN last.before.w.cache
     /\ RecordsFor(last.before.slots, docs[1]) = {})
        => /\ ~last.flags[1]
           /\ RecordsFor(slots, docs[1]) # {}

(***************************************************************************)
(* A slot over several visits (checked under SpecRevisit, where the page   *)
(* shows one bookable, priced slot or nothing).                            *)
(***************************************************************************)
\* the slot shows in the result of the last call, and every backend is up
SeenAgain ==
    /\ IsStore
    /\ last.f = NoFault
    /\ last.result.slots_found # <<>>
    /\ docs[1].available

\* C13 as stated: a slot whose notification was lost to a publish failure
\* (its record is in the store, the queue holds no message for it) and
\* which a later session observes still available, with every backend up,
\* gets a notification then.
C13_LostNotificationRecovered ==
    (/\ SeenAgain
     /\ RecordsFor(last.before.slots, docs[1]) # {}
     /\ MessagesFor(last.before.pub.queue, slot_tuple(docs[1])) = {})
        => MessagesFor(queue, slot_tuple(docs[1])) # {}

\* C15 as stated: a slot that was seen and recorded, then was missing from
\* a later scrape of its venue, and is now observed available again, gets a
\* notification from the session that observes the re-opening.
C15_ReopenedSlotNotified ==
    (/\ SeenAgain
     /\ RecordsFor(last.before.slots, docs[1]) # {}
     /\ \E i, j \in 1..Len(last.before.scraping_logs) :
           /\ i < j
           /\ last.before.scraping_logs[i].slots_found = 1
           /\ last.before.scraping_logs[j].slots_found = 0)
        => /\ last.notifications # <<>>
           /\ Len(queue) = Len(last.before.pub.queue) + 1

(***************************************************************************)
(* Order of the work inside one session (checked under SpecSession).       *)
(***************************************************************************)
\* the attempt-log entries of the results stored so far in this session are
\* the last entries of the log, in venue order
LogsOfSession ==
    /\ Len(scraping_logs) >= Len(stored)
    /\ \A k \in 1..Len(stored) :
          LET entry == scraping_logs[Len(scraping_logs) - Len(stored) + k]
          IN  /\ entry.venue_id = ObjectId(stored[k].venue_id)
              /\ entry.slots_found = Len(stored[k].slots_found)

\* C17: venues are handled strictly one after another.  Whenever the scrape
\* of a venue is about to begin, or has just ended, every earlier venue of
\* the session has been scraped and its result has gone through
\* store_scraping_result entirely (upserts, publish, log entry); at most one
\* venue has been scraped and not yet stored.
C17_VenuesOneAfterAnother ==
    /\ Len(attempts) - Len(stored) \in {0, 1}
    /\ pc = "scrape"
          => /\ Len(attempts) = idx - 1
             /\ stored = results
             /\ \A k \in 1..Len(stored) : stored[k].venue_id = venues[k]._id
             /\ LogsOfSession
    /\ pc = "store"
          => /\ Len(attempts) = idx
             /\ results = Append(stored, results[idx])
             /\ results[idx].venue_id = venues[idx]._id
             /\ LogsOfSession
    /\ pc \in {"finish", "idle"} => stored = results /\ LogsOfSession

\* the third venue is about to be scraped; the first two are stored and
\* logged, and the notification of one of them is on the queue
C17_Witness ==
    /\ pc = "scrape"
    /\ idx = 3
    /\ last.op = "store_scraping_result"
    /\ Len(stored) = 2
    /\ Len(scraping_logs) >= 2
    /\ last.result.venue_id = venues[2]._id
    /\ stored[1].slots_found # <<>>
    /\ MessagesFor(queue, slot_tuple(slots_data_of(stored[1].slots_found,
                                                     stored[1].platform)[1])) # {}

(***************************************************************************)
(* Connections at the exits of the entry points (checked under             *)
(* SpecOrchestrator).                                                      *)
(***************************************************************************)
Returned == last.op \in {"run_scraping_session", "test_single_venue"}

\* C16: whenever run_scraping_session or test_single_venue has been left,
\* by its return, by an early return or by an exception, the document-store
\* connection is closed and the dedup-cache connection is closed (or was
\* never made); no connection is open while no call is running.
C16_ConnectionsClosedOnExit ==
    /\ Returned =>
          /\ pc = "idle"
          /\ conn.mongo = "closed"
          /\ conn.dedup \in {"none", "closed"}
          /\ client # "None" => conn.dedup = "closed"
    /\ pc = "idle" => conn.mongo # "open" /\ conn.dedup # "open"

\* an exception leaves run_scraping_session inside store_scraping_result,
\* after the dedup check has used the cache connection
C16_Witness ==
    /\ last.op = "run_scraping_session"
    /\ last.exit = "BaseException"
    /\ last.at = "store"
    /\ client = "Redis"
    /\ cache # EmptyMap
    /\ conn = [mongo |-> "closed", dedup |-> "closed"]

(***************************************************************************)
(* Two processes on one slot (checked under SpecConcurrent).               *)
(***************************************************************************)
BothDone == inst # <<>> /\ \A i \in 1..2 : inst[i].pc = "done"

SharedSlot == slot_doc_of(inst[1])

InSession == pc # "idle"

\* the scheduler is suspended on await self.run_scraping_session()
Awaiting == sched.pc \in {"initial", "session"}

SessionsInSequence ==
    /\ sessions = sched.started
    /\ sched.started - sched.finished \in {0, 1}
    /\ InSession => Awaiting /\ sched.started = sched.finished + 1
    /\ sched.pc \in {"loop", "sleep30", "sleep60", "returned"}
          => ~InSession /\ sched.started = sched.finished

SchedulerStep ==
    /\ sessions' # sessions
          => /\ ~InSession
             /\ sched.started = sched.finished
             /\ sched.pc \in {"off", "loop"}
    /\ sched'.next_run_time # sched.next_run_time
          => /\ pc \in {"idle", "raised"}
             /\ Awaiting
             /\ sched'.finished = sched.finished + 1
             /\ sched'.next_run_time = <<sched.time + interval_units>>
    /\ (slots' # slots \/ scraping_logs' # scraping_logs \/ system_status' # system_status)
          => /\ pc \in {"store", "finish"}
             /\ sessions' = sessions
             /\ sched.started = sched.finished + 1

\* C19: sessions started by the scheduler never overlap.  A session is
\* started only when every earlier one has returned or raised and the
\* scheduler has resumed from its await; next_run_time is set only when the
\* awaited session has ended (and is then the clock plus the interval); the
\* store is written only by the one session in progress, so all writes of
\* session k come before the first write of session k+1.
C19_SessionsNeverOverlap == [](SessionsInSequence) /\ [][SchedulerStep]_vars

\* the loop has started a third session after two earlier ones, one of which
\* raised and was retried; the earlier sessions have written the store
C19_Witness ==
    /\ sched.pc = "session"
    /\ sched.started = 3
    /\ sched.finished = 2
    /\ pc = "store"
    /\ Len(scraping_logs) >= 2
    /\ sched.next_run_time # <<>>

\* C20 as stated: when the shutdown signal arrives during a session, the
\* venue that is being handled finishes (its result is scraped and stored),
\* and no further venue is begun.
C20_RunningVenueFinishes ==
    (/\ sched.pc = "exited"
     /\ last.op = "run_scraping_session"
     /\ last.exit = "BaseException"
     /\ last.at \in {"scrape", "store"})
        => /\ Len(stored) = idx
           /\ stored[idx].venue_id = venues[idx]._id
           /\ Len(attempts) <= idx

(***************************************************************************)
(* Errors outside and inside the venue boundary.                           *)
(***************************************************************************)
\* C21 as stated (checked under SpecSession): when loading the venue list
\* fails, run_scraping_session does not return normally; the failure reaches
\* its caller.
C21_LoadFailurePropagates ==
    [][(/\ last.op = "start_session"
        /\ ~last.mongo_up
        /\ last'.op = "run_scraping_session")
          => last'.exit # "return"]_vars

\* a store operation of the last store_scraping_result call failed: a slot
\* lookup or upsert, or the attempt-log insert
StoreFailed ==
    /\ IsStore
    /\ last.raised
    /\ \/ ~last.f.log_ok
       \/ \E i \in 1..Len(last.trace) :
             ~last.trace[i].is_duplicate /\ ~last.trace[i].upserted

\* C22 as stated (checked under Spec): when a slot upsert or the attempt-log
\* append fails for a venue, the session goes on, and the venue's result as
\* the session summary counts it reports the failure: it is not a success
\* with no error.
C22_StoreFailureCounted ==
    StoreFailed =>
        /\ pc \in {"scrape", "finish"}
        /\ \/ ~results[Len(results)].success
           \/ results[Len(results)].errors # <<>>
        /\ \/ session_summary(results).successful_venues
                 < session_summary(results).total_venues
           \/ session_summary(results).total_errors > 0


(***************************************************************************)
(* Single-venue test mode against a session restricted to the venue.       *)
(***************************************************************************)
\* the last test_single_venue call ended (by return or by its except branch)
\* for a venue that was loaded
TestEnded ==
    /\ last.op = "test_single_venue"
    /\ last.exit \in {"return", "KeyError", "Exception"}
    /\ venues # <<>>

\* the cache, store and queue as the test call found them
TestBefore == IF last.exit = "return" THEN last.before ELSE Globals

\* the result scrape_all_venues builds and stores for the venue of the test
\* call, from the same scrape output
SessionResultOfTest ==
    IF last.exit = "KeyError"
    THEN scrape_venue(venues[1], [kind |-> "raise", text |-> ""], now).result
    ELSE IF last.exit = "Exception"
    THEN error_result(venues[1], attempts[1].text, now)
    ELSE results[1]

\* the state a session restricted to the venue leaves, from the same state
SessionOfTest ==
    store_scraping_result(TestBefore, SessionResultOfTest,
                          IF last.exit = "return" THEN last.f ELSE NoFault, now).g

\* C23 as stated (checked under SpecOrchestrator): when test_single_venue has
\* ended for a venue, the dedup marks, the slot records, the attempt log and
\* the notification queue are those that run_scraping_session([venue])
\* leaves from the same state and the same scrape output.
C23_TestModeSamePipeline ==
    TestEnded =>
        /\ cache = SessionOfTest.w.cache
        /\ slots = SessionOfTest.slots
        /\ scraping_logs = SessionOfTest.scraping_logs
        /\ queue = SessionOfTest.pub.queue

\* C24 as stated (checked under SpecOrchestrator): a request for a venue that
\* does not exist, or whose platform has no scraper, ends with a failed
\* ScrapingResult (success false, an error text), never with no result.
C24_ConfigErrorIsFailedResult ==
    (last.op = "test_single_venue" /\ last.exit \in {"not found", "KeyError"})
        => /\ last.value # <<>>
           /\ ~last.value[1].success
           /\ last.value[1].errors # <<>>


(***************************************************************************)
(* Which venues a session scrapes (checked under SpecActive).              *)
(***************************************************************************)
\* C25 as stated: a session, with or without a name filter, scrapes only
\* venues whose is_active flag is set: no scrape attempt, stored result or
\* attempt-log entry belongs to a deactivated venue.
C25_OnlyActiveVenuesScraped ==
    \A j \in 1..Len(FlaggedVenues) :
        ~FlaggedVenues[j].is_active =>
            /\ \A i \in 1..Len(attempts) : attempts[i].venue_id # FlaggedVenues[j]._id
            /\ \A i \in 1..Len(stored) : stored[i].venue_id # FlaggedVenues[j]._id
            /\ \A i \in 1..Len(scraping_logs) :
                  scraping_logs[i].venue_id # ObjectId(FlaggedVenues[j]._id)


(***************************************************************************)
(* The persisted slot record over its sightings (checked under Spec).      *)
(***************************************************************************)
\* the record of document d's natural key carries d's sighting
CarriesSighting(coll, d) ==
    /\ find_one(coll, natural_key(d)) # <<>>
    /\ find_one(coll, natural_key(d))[1].price = d.price
    /\ find_one(coll, natural_key(d))[1].available = d.available
    /\ find_one(coll, natural_key(d))[1].scraped_at = d.scraped_at

\* the k-th slot of the batch is the last one the batch holds for its key
LatestInBatch(k) ==
    \A j \in (k + 1)..Len(docs) : natural_key(docs[j]) # natural_key(docs[k])

\* C26 as stated: after a result has been processed with every backend
\* answering, the record of each of its slots carries the price, the
\* availability and the scrape timestamp of the latest sighting.
C26_Original ==
    (IsStore /\ last.f = NoFault) =>
        \A k \in 1..Len(docs) : LatestInBatch(k) => CarriesSighting(slots, docs[k])

\* no step removes the record of a natural key
NoRecordDeleted ==
    \A i \in 1..Len(slots) : find_one(slots', natural_key(slots[i])) # <<>>

\* what a store_scraping_result call leaves of the sightings it was given:
\* an upserted sighting, the last upserted for its key, is what the record
\* carries; a sighting that was flagged duplicate or not upserted, with no
\* upserted sighting of the same key in the batch, leaves the record of its
\* key (or its absence) as before the call
SightingsRecorded ==
    IsStore =>
        \A k \in 1..Len(docs) :
            LET Upserted(j) == /\ ~last.flags[j]
                               /\ last.trace[trace_index(last.flags, j)].upserted
            IN  /\ (/\ Upserted(k)
                    /\ \A j \in (k + 1)..Len(docs) :
                          Upserted(j) => natural_key(docs[j]) # natural_key(docs[k]))
                      => /\ CarriesSighting(slots, docs[k])
                         /\ find_one(slots, natural_key(docs[k])) = <<docs[k]>>
                /\ (\A j \in 1..Len(docs) :
                        Upserted(j) => natural_key(docs[j]) # natural_key(docs[k]))
                      => find_one(slots, natural_key(docs[k]))
                            = find_one(last.before.slots, natural_key(docs[k]))

\* C26: the record of a natural key is created by the first sighting that
\* is upserted and replaced in place by every later sighting that passes the
\* dedup check and is upserted; a sighting flagged duplicate or not upserted
\* leaves the record as it was; and no step ever deletes a record.
C26_RecordFollowsUpsertedSightings ==
    [](SightingsRecorded) /\ [][NoRecordDeleted]_vars

\* a record that existed with an earlier scrape timestamp is replaced in
\* place by a later sighting of its key
C26_Witness ==
    /\ IsStore
    /\ Len(slots) = Len(last.before.slots)
    /\ \E k \in 1..Len(docs) :
        LET old == find_one(last.before.slots, natural_key(docs[k]))
        IN  /\ ~last.flags[k]
            /\ old # <<>>
            /\ old[1].scraped_at < docs[k].scraped_at
            /\ old[1].available # docs[k].available
            /\ CarriesSighting(slots, docs[k])


\* C27 as stated (checked under Spec), for a call during which every backend
\* answers: a slot that passed the dedup check, had no record, is available
\* and has no price is upserted and a notification for it is on the queue
\* after the call, and the unflagged slots after it in the result are
\* upserted as well.
C27_AbsentPriceStillNotified ==
    (IsStore /\ last.f = NoFault) =>
        \A k \in 1..Len(docs) :
            LET e == last.trace[trace_index(last.flags, k)]
            IN  (/\ ~last.flags[k]
                 /\ ~e.existed
                 /\ docs[k].available
                 /\ docs[k].price = <<>>)
                    => /\ e.upserted
                       /\ Cardinality(MessagesFor(queue, slot_tuple(docs[k])))
                             > Cardinality(MessagesFor(last.before.pub.queue,
                                                       slot_tuple(docs[k])))
                       /\ \A j \in (k + 1)..Len(docs) :
                             ~last.flags[j]
                                => last.trace[trace_index(last.flags, j)].upserted


(***************************************************************************)
(* Expiry of the dedup keys (checked under SpecDedup).                     *)
(***************************************************************************)
\* every key in the cache has an expiry, at most expiry_hours * 3600 s away,
\* and a key the last check wrote has exactly that expiry
KeysExpire ==
    /\ \A key \in DOMAIN cache : cache[key].ttl \in 1..(expiry_hours * 3600)
    /\ (/\ last.op = "is_duplicate_slot"
        /\ last.redis_key \in DOMAIN cache
        /\ last.redis_key \notin DOMAIN last.before.cache)
          => cache[last.redis_key].ttl = expiry_hours * 3600

\* no step moves the expiry of a key that is in the cache further away
ExpiryNotExtended ==
    \A key \in DOMAIN cache :
        key \in DOMAIN cache' => cache'[key].ttl <= cache[key].ttl

\* C28: every key the deduplicator writes is written with an expiry of
\* expiry_hours * 3600 seconds (48 h by default), no key is in the cache
\* without an expiry, and no operation extends the expiry of a key that
\* exists: a duplicate check leaves the key and its remaining time alone.
C28_KeysWrittenWithExpiryOnly ==
    [](KeysExpire) /\ [][ExpiryNotExtended]_vars

\* a key with half its expiry gone is checked again: reported duplicate, and
\* its remaining time is as before the check
C28_Witness ==
    /\ last.op = "is_duplicate_slot"
    /\ last.is_duplicate
    /\ last.redis_key \in DOMAIN last.before.cache
    /\ last.before.cache[last.redis_key].ttl = expiry_hours * 3600 - TickSeconds
    /\ cache[last.redis_key] = last.before.cache[last.redis_key]


(***************************************************************************)
(* Rates of get_metrics (checked under SpecMetrics).                       *)
(***************************************************************************)
\* rate r is the quotient count / total
IsQuotient(r, count, total) == r.den # 0 /\ r.num * total = count * r.den

\* C29: get_metrics never fails and returns the five counters as they are;
\* with total_checks > 0 each of duplicate_rate, new_slot_rate and error_rate
\* is its count divided by total_checks (30 duplicates and 70 new slots of
\* 100 checks give 3/10 and 7/10, 5 errors give 1/20); with total_checks = 0
\* all three rates are 0.
C29_RatesOfTotalChecks ==
    last.op = "get_metrics" =>
        /\ ~last.raised
        /\ LET m == last.value[1]
           IN  /\ \A c \in DOMAIN metrics : m[c] = metrics[c]
               /\ metrics.total_checks > 0 =>
                     /\ IsQuotient(m.duplicate_rate, metrics.duplicates_found,
                                   metrics.total_checks)
                     /\ IsQuotient(m.new_slot_rate, metrics.new_slots,
                                   metrics.total_checks)
                     /\ IsQuotient(m.error_rate, metrics.redis_errors,
                                   metrics.total_checks)
               /\ (/\ metrics.total_checks = 100
                   /\ metrics.duplicates_found = 30
                   /\ metrics.new_slots = 70)
                     => /\ IsQuotient(m.duplicate_rate, 3, 10)
                        /\ IsQuotient(m.new_slot_rate, 7, 10)
               /\ (metrics.total_checks = 100 /\ metrics.redis_errors = 5)
                     => IsQuotient(m.error_rate, 1, 20)
               /\ metrics.total_checks = 0 =>
                     /\ IsQuotient(m.duplicate_rate, 0, 1)
                     /\ IsQuotient(m.new_slot_rate, 0, 1)
                     /\ IsQuotient(m.error_rate, 0, 1)

\* the rates of 30 duplicates and 70 new slots in 100 checks have been read
C29_Witness ==
    /\ last.op = "get_metrics"
    /\ metrics.total_checks = 100
    /\ metrics.duplicates_found = 30
    /\ metrics.new_slots = 70
    /\ IsQuotient(last.value[1].duplicate_rate, 3, 10)
    /\ IsQuotient(last.value[1].new_slot_rate, 7, 10)


(***************************************************************************)
(* The batch check slot by slot (checked under Spec).                      *)
(***************************************************************************)
\* the dedup key of the k-th slot of the batch was in the cache on entry
SeenBefore(k) == generate_slot_key(docs[k]) \in DOMAIN last.before.w.cache

\* C30 as stated, for a call during which every backend answers: a slot of
\* the batch is reported duplicate exactly when its own key was in the cache
\* before the call, whatever else the batch holds.
C30_Original ==
    (IsStore /\ last.f = NoFault) =>
        \A k \in 1..Len(docs) : last.flags[k] <=> SeenBefore(k)

\* a sequence back to front
reversed(s) == [i \in 1..Len(s) |-> s[Len(s) + 1 - i]]

\* the flags check_multiple_slots gives the batch of the last call when it
\* is handed over back to front, each check answered as it was
FlagsReversed ==
    check_multiple_slots(last.before.w, reversed(docs),
                         reversed(SubSeq(last.f.ups, 1, Len(docs))), now).flags

\* C30: check_multiple_slots applies the single check slot by slot.  A slot
\* whose key no other slot of the batch has is reported duplicate exactly
\* when the cache answers its check and held its key before the call, and
\* gets the same report when the batch is handed over in reverse order; of
\* the slots of a batch that share a key, at most the first whose check is
\* answered is reported new on account of the cache, every later answered
\* one is reported duplicate.
C30_PartitionByOwnStateForDistinctKeys ==
    IsStore =>
        \A k \in 1..Len(docs) :
            /\ (\A j \in 1..Len(docs) :
                   j # k => generate_slot_key(docs[j]) # generate_slot_key(docs[k]))
                  => /\ last.flags[k] <=> (last.f.ups[k] /\ SeenBefore(k))
                     /\ FlagsReversed[Len(docs) + 1 - k] = last.flags[k]
            /\ (\E j \in 1..(k - 1) :
                   /\ generate_slot_key(docs[j]) = generate_slot_key(docs[k])
                   /\ last.f.ups[j])
                  => (last.flags[k] <=> last.f.ups[k])

\* a batch of two slots with different keys, the first seen before and the
\* second not: the first is reported duplicate and the second new, in this
\* order and in the reverse order
C30_Witness ==
    /\ IsStore
    /\ Len(docs) = 2
    /\ generate_slot_key(docs[1]) # generate_slot_key(docs[2])
    /\ SeenBefore(1)
    /\ ~SeenBefore(2)
    /\ last.flags = <<TRUE, FALSE>>
    /\ FlagsReversed = <<FALSE, TRUE>>


(***************************************************************************)
(* A session run again over the same scrape output (checked under Spec).   *)
(***************************************************************************)
\* the last session has ended, and its venue's page showed slots
SessionReturnedWithSlots ==
    /\ pc = "idle"
    /\ stored # <<>>
    /\ stored[1].slots_found # <<>>

\* what a second session does with the venue's result when it is run now,
\* over the same scrape output, with backends answering as f2 says
SecondRun(f2) == store_scraping_result(Globals, stored[1], f2, now)

\* the second session upserts no record and publishes nothing, and leaves
\* the slots collection and the queue as the first session left them
SecondRunIdle(f2) ==
    /\ SecondRun(f2).g.slots = slots
    /\ SecondRun(f2).g.pub.queue = queue
    /\ SecondRun(f2).notifications = <<>>
    /\ \A i \in 1..Len(SecondRun(f2).trace) : ~SecondRun(f2).trace[i].upserted

AllMarked ==
    \A k \in 1..Len(stored[1].slots_found) :
        generate_slot_key(slots_data_of(stored[1].slots_found,
                                        stored[1].platform)[k]) \in DOMAIN cache

RECURSIVE received(_)
received(q) ==
    IF q = <<>> THEN <<>> ELSE <<brpop(q).message>> \o received(brpop(q).q)

\* the messages of a batch that are complete and whose push is answered, in
\* batch order
RECURSIVE accepted(_, _)
accepted(batch, qups) ==
    IF batch = <<>> THEN <<>>
    ELSE (IF Head(qups) /\ required_fields \subseteq DOMAIN Head(batch)
          THEN <<json_dumps(Head(batch))>> ELSE <<>>)
             \o accepted(Tail(batch), Tail(qups))

\* position in the scrape result of the slot a notification is about
position_in_result(n) ==
    CHOOSE k \in 1..Len(docs) : notification_slot(docs[k]) = n

\* C32: the notifications of a venue's batch are built in the order the
\* slots have in the scrape result and pushed in that order; a consumer
\* popping from the queue receives the messages that were there before and
\* then those of the batch that were pushed, in batch order; a message that
\* lacks a field or whose push fails is left out and the others keep their
\* order.
C32_BatchOrderKept ==
    /\ IsStore =>
        /\ \A i, j \in 1..Len(last.notifications) :
              i < j => position_in_result(last.notifications[i])
                          < position_in_result(last.notifications[j])
        /\ received(queue) = received(last.before.pub.queue)
                                \o accepted(last.notifications, last.f.qups)
    /\ last.op = "publish_new_slots" =>
        /\ received(queue) = received(last.before.pub.queue)
                                \o accepted(last.new_slots, last.qups)
        /\ last.published_count = Len(accepted(last.new_slots, last.qups))
    /\ last.op = "brpop" =>
        /\ last.message = Head(received(last.queue))
        /\ received(queue) = Tail(received(last.queue))

\* three slots were stored in an order other than the page's, the push of
\* the second notification failed, and the consumer is to receive the older
\* message, then the first and the third notification of the batch
C32_Witness ==
    /\ IsStore
    /\ Len(last.notifications) = 3
    /\ docs[1].court_id = "3"
    /\ last.f.qups = <<TRUE, FALSE, TRUE>>
    /\ last.before.pub.queue # <<>>
    /\ received(queue) = received(last.before.pub.queue)
                            \o <<json_dumps(last.notifications[1]),
                                 json_dumps(last.notifications[3])>>


(***************************************************************************)
(* The last-scrape marker (checked under SpecMarker).                      *)
(***************************************************************************)
\* at most one marker document, its _id "scraper_status", never dated after
\* the present; after a session has returned with its status update
\* answered, the marker carries that session's completion time and every
\* venue of the session has been stored
MarkerIsCurrent ==
    /\ Len(system_status) <= 1
    /\ \A i \in 1..Len(system_status) :
          /\ system_status[i]._id = "scraper_status"
          /\ system_status[i].last_scrape_time <= now
          /\ system_status[i].created_at <= system_status[i].last_scrape_time
    /\ (last.op = "run_scraping_session" /\ last.exit = "return" /\ last.status_ok)
          => /\ system_status # <<>>
             /\ system_status[1].last_scrape_time = now
             /\ Len(stored) = Len(venues)

\* the marker changes only in the step in which run_scraping_session
\* returns, after the venue loop has ended with every venue stored; a step
\* in which a session is ended by an exception leaves it as it was
MarkerWrittenAtReturnOnly ==
    /\ system_status' # system_status
          => /\ pc = "finish"
             /\ Len(stored) = Len(venues)
             /\ last'.op = "run_scraping_session"
             /\ last'.exit = "return"
             /\ system_status'[1].last_scrape_time = now
    /\ (last'.op = "run_scraping_session" /\ last'.exit # "return")
          => system_status' = system_status

C33_RaisedWitness ==
    /\ last.op = "run_scraping_session"
    /\ last.exit = "BaseException"
    /\ system_status # <<>>
    /\ system_status[1].last_scrape_time < now


(***************************************************************************)
(* Target dates (checked under SpecDates).                                 *)
(***************************************************************************)
\* the [y, m, d] a "YYYY-MM-DD" text stands for
parse_date(text) ==
    [y |-> int(SubSeq(text, 1, 4)), m |-> int(SubSeq(text, 6, 7)),
     d |-> int(SubSeq(text, 9, 10))]

\* the number of the day in the proleptic Gregorian calendar, counted in
\* years that begin with March
day_number(date) ==
    LET y == IF date.m > 2 THEN date.y ELSE date.y - 1
        m == IF date.m > 2 THEN date.m - 3 ELSE date.m + 9
    IN  365 * y + (y \div 4) - (y \div 100) + (y \div 400)
           + ((153 * m + 2) \div 5) + date.d

\* dates is the window of n consecutive calendar dates that starts today
IsWindow(dates, today, n) ==
    /\ Len(dates) = n
    /\ \A i \in 1..Len(dates) :
          /\ Len(dates[i]) = 10
          /\ date_strftime(parse_date(dates[i])) = dates[i]
          /\ parse_date(dates[i]).m \in 1..12
          /\ parse_date(dates[i]).d
                \in 1..days_in_month(parse_date(dates[i]).y, parse_date(dates[i]).m)
          /\ day_number(parse_date(dates[i])) = day_number(today) + (i - 1)

\* the SCRAPER_DAYS_AHEAD setting: 7 when unset
days_ahead_setting(env) == IF env = <<>> THEN 7 ELSE int(env[1])

\* C34: scrape_venue hands the scraper the explicit dates when a (non-empty)
\* list is given, and otherwise the window of SCRAPER_DAYS_AHEAD (7 when
\* unset) consecutive calendar dates starting today; test_single_venue with
\* days_ahead = None hands it that same window, and with a days_ahead given,
\* the window of that length.
C34_TargetDates ==
    /\ last.op = "scrape_venue" /\ "dates" \in DOMAIN last =>
          IF last.target_dates # <<>> /\ last.target_dates[1] # <<>>
          THEN last.dates = last.target_dates[1]
          ELSE IsWindow(last.dates, last.today, days_ahead_setting(last.env))
    /\ last.op = "test_single_venue" /\ "dates" \in DOMAIN last =>
          IF last.days_ahead = <<>>
          THEN IsWindow(last.dates, last.today, days_ahead_setting(last.env))
          ELSE IsWindow(last.dates, last.today, last.days_ahead[1])

\* no argument and no setting on 27 February 2024: seven dates, through the
\* leap day into March
C34_Witness ==
    /\ last.op = "scrape_venue"
    /\ "dates" \in DOMAIN last
    /\ last.target_dates = <<>>
    /\ last.env = <<>>
    /\ last.dates = <<"2024-02-27", "2024-02-28", "2024-02-29", "2024-03-01",
                      "2024-03-02", "2024-03-03", "2024-03-04">>


(***************************************************************************)
(* Checks during and after an outage of the cache (checked under           *)
(* SpecDedup).                                                             *)
(***************************************************************************)
IsCheck == last.op = "is_duplicate_slot"

\* some earlier check of this deduplicator found the backend unreachable
FailedBefore ==
    last.before.metrics.connection_failures + last.before.metrics.redis_errors > 0

RECURSIVE single_checks(_, _, _, _)
single_checks(w, slots_data, ups, t) ==
    IF slots_data = <<>> THEN <<>>
    ELSE LET Answer(r) ==
                 <<[is_duplicate |-> r.is_duplicate, redis_key |-> r.redis_key]>>
                    \o single_checks(r.w, Tail(slots_data), Tail(ups), t)
         IN  Answer(is_duplicate_slot(w, Head(slots_data), Head(ups), t))

\* the entries of a list at the positions in P, in the list's order
RECURSIVE at_positions(_, _, _)
at_positions(list, P, i) ==
    IF i > Len(list) THEN <<>>
    ELSE (IF i \in P THEN <<list[i]>> ELSE <<>>) \o at_positions(list, P, i + 1)

\* the answers of the single checks of the last batch
Answers == single_checks(last.before, last.slots_data, last.ups, now)

\* the positions of the last batch whose single check answered duplicate
DuplicatePositions == {i \in 1..Len(last.slots_data) : Answers[i].is_duplicate}

\* C36: check_multiple_slots returns the slots whose single check answered
\* is_duplicate = false as new_slots and those whose check answered true,
\* each paired with its key, as duplicate_slots; each list keeps the input
\* order, every position of the input is in exactly one of them and the
\* lengths add up to the length of the input.
C36_BatchPartitionsInput ==
    last.op = "check_multiple_slots" =>
        /\ Len(last.new_slots) + Len(last.duplicate_slots) = Len(last.slots_data)
        /\ last.new_slots
              = at_positions(last.slots_data,
                             (1..Len(last.slots_data)) \ DuplicatePositions, 1)
        /\ [i \in 1..Len(last.duplicate_slots) |-> last.duplicate_slots[i].slot]
              = at_positions(last.slots_data, DuplicatePositions, 1)
        /\ [i \in 1..Len(last.duplicate_slots) |-> last.duplicate_slots[i].redis_key]
              = at_positions([i \in 1..Len(Answers) |-> Answers[i].redis_key],
                             DuplicatePositions, 1)
        /\ \A i \in 1..Len(last.duplicate_slots) :
              last.duplicate_slots[i].redis_key
                 = generate_slot_key(last.duplicate_slots[i].slot)

\* a list of three slots with different keys or prices: the first and the
\* third are duplicates, the second is new
C36_Witness ==
    /\ last.op = "check_multiple_slots"
    /\ Len(last.slots_data) = 3
    /\ DuplicatePositions = {1, 3}
    /\ last.slots_data[1] # last.slots_data[3]
    /\ last.new_slots = <<last.slots_data[2]>>
    /\ Len(last.duplicate_slots) = 2
    /\ last.duplicate_slots[1].slot = last.slots_data[1]
    /\ last.duplicate_slots[2].slot = last.slots_data[3]


(***************************************************************************)
(* Literal keys and the store's natural key (checked under SpecKey).       *)
(***************************************************************************)
\* the slot's key is the literal one: its tuple string is within the limit
HasLiteralKey(slot_data) == Len(key_suffix_of(slot_data)) <= KeyLengthLimit

\* the filter_query of the document the store builds for a scraped slot
store_key(slot_data) ==
    natural_key([venue_id |-> ObjectId(str(get(slot_data, "venue_id"))),
                 court_id |-> get(slot_data, "court_id"),
                 date |-> get(slot_data, "date"),
                 start_time |-> get(slot_data, "start_time")])

Counters == {"total_checks", "duplicates_found", "new_slots", "redis_errors",
             "connection_failures"}

Outcomes == {"new_slots", "duplicates_found", "redis_errors", "connection_failures"}

\* after a call of is_duplicate_slot: total_checks is one more than before
\* the call and so is exactly one of the four outcome counters, the other
\* three are as before
OneOutcomeCounted ==
    last.op = "is_duplicate_slot" =>
        /\ metrics.total_checks = last.before.metrics.total_checks + 1
        /\ \E c \in Outcomes :
              /\ metrics[c] = last.before.metrics[c] + 1
              /\ \A d \in Outcomes \ {c} : metrics[d] = last.before.metrics[d]

OutcomesWithinChecks ==
    metrics.new_slots + metrics.duplicates_found + metrics.redis_errors
        <= metrics.total_checks

\* a step lowers no counter, unless it is reset_metrics, which leaves all
\* five at 0
NoCounterDecreases ==
    IF last'.op = "reset_metrics"
    THEN \A c \in Counters : metrics'[c] = 0
    ELSE \A c \in Counters : metrics'[c] >= metrics[c]

\* C38: every call of is_duplicate_slot adds 1 to total_checks and 1 to
\* exactly one of new_slots, duplicates_found, redis_errors and
\* connection_failures; in every reachable state, also after reset_metrics,
\* new_slots + duplicates_found + redis_errors <= total_checks; no counter
\* decreases except by reset_metrics, which sets all five to 0.
C38_CountersConsistent ==
    [](OneOutcomeCounted /\ OutcomesWithinChecks) /\ [][NoCounterDecreases]_vars

\* a check on a backend that is down, made after reset_metrics had cleared
\* the counters of earlier checks: total_checks and redis_errors are 1, the
\* other counters 0
C38_Witness ==
    /\ last.op = "is_duplicate_slot"
    /\ ~last.up
    /\ last.before.metrics = metrics0
    /\ last.before.cache # EmptyMap
    /\ metrics = [metrics0 EXCEPT !.total_checks = 1, !.redis_errors = 1]

\* the first check of a deduplicator whose backend is down: the connection
\* failure is the one outcome counted
C38_ConnectionFailureWitness ==
    /\ last.op = "is_duplicate_slot"
    /\ last.before.client = "None"
    /\ metrics = [last.before.metrics EXCEPT !.total_checks = @ + 1,
                                             !.connection_failures = @ + 1]

(***************************************************************************)
(* Persist before notify (checked under Spec).                             *)
(***************************************************************************)
\* the slots collection holds a record with the natural key of message m
HasRecord(coll, m) ==
    \E i \in 1..Len(coll) :
        <<str(coll[i].venue_id), coll[i].date, coll[i].start_time, coll[i].court_id>>
            = message_tuple(m)

\* every message on the outbound queue refers to a slot present in the store
PublishedArePersisted == \A i \in 1..Len(queue) : HasRecord(slots, queue[i])

\* a step that pushes messages leaves the record of each pushed message in
\* the slots collection, and no step removes the record of a queued message
PushedArePersisted ==
    /\ \A i \in 1..Len(queue') :
          (\A j \in 1..Len(queue) : queue[j] # queue'[i]) => HasRecord(slots', queue'[i])
    /\ \A i \in 1..Len(queue) : HasRecord(slots, queue[i]) => HasRecord(slots', queue[i])

\* C39: a notification is pushed to the outbound queue only for a slot whose
\* record is in the slots collection when the store call that pushed it
\* ends, and no record is ever deleted: in every reachable state each
\* published message refers to a slot that is present in the store.
C39_PersistBeforeNotify ==
    [](PublishedArePersisted) /\ [][PushedArePersisted]_vars

\* a store call that upserted a new slot and pushed its notification
C39_Witness ==
    /\ IsStore
    /\ Len(queue) = Len(last.before.pub.queue) + 1
    /\ Len(slots) = Len(last.before.slots) + 1
    /\ HasRecord(slots, queue[1])
    /\ ~HasRecord(last.before.slots, queue[1])

====
